---- MODULE Spec2Model ----
(***************************************************************************)
(* Model of the boolean-expression compiler front end: AST (src/ast.py),   *)
(* optimizer (src/optimizer.py), evaluator (src/evaluator.py), tokenizer   *)
(* (src/tokenizer.py) and recursive-descent parser (src/parser.py).        *)
(*                                                                         *)
(* Python strings are modelled as sequences of one-character strings, so   *)
(* that scanning, upper-casing and lexeme extraction are computed.         *)
(* Python values stored in an environment are records [py, v] so that      *)
(* isinstance(value, bool) can be decided.                                 *)
(***************************************************************************)
EXTENDS Integers, Sequences, FiniteSets, TLC

VARIABLES
    expr,            \* the AST handed to optimize / evaluate / to_json
    env,             \* the environment handed to evaluate
    optimized,       \* optimize(expr), once computed
    reoptimized,     \* optimize(optimize(expr)), once computed
    value,           \* outcome of evaluate(expr, env), once computed
    optValue,        \* outcome of evaluate(optimize(expr), env), once computed
    json,            \* expr.to_json(), once computed
    restored,        \* from_json(json), once computed
    source,          \* Lexer.source
    enable_comments, \* Lexer.enable_comments
    offset,          \* Lexer.offset
    line,            \* Lexer.line
    column,          \* Lexer.column
    tokens,          \* the list built by Lexer.tokenize / held by Parser.tokens
    lexState,        \* "idle" | "running" | "done" | "error"
    lexError,        \* the LexicalError raised, if any
    parsed,          \* outcome of Parser.parse_expression, once computed
    error,           \* a CompilerError: class name, message, location, source
    formatted,       \* error.format_error(), once computed
    printed,         \* pretty_print(expr, show_parentheses="minimal"), once computed
    reparsed,        \* outcome of parse(printed), once computed
    repl_env,        \* REPL.env
    debug,           \* REPL.debug
    last_expr,       \* REPL.last_expr
    last_source,     \* REPL.last_source
    replState,       \* "idle" | "prompt" | "ended" | "crashed": the loop of REPL.run
    output,          \* what the last input line made the REPL print
    input_line       \* the line input() returned last

astVars == <<expr, env, optimized, reoptimized, value, optValue, json, restored>>
lexVars == <<source, enable_comments, offset, line, column, tokens, lexState, lexError>>
fmtVars == <<error, formatted>>
prettyVars == <<printed, reparsed>>
replVars == <<repl_env, debug, last_expr, last_source, replState, output,
             input_line>>
extVars == <<fmtVars, prettyVars, replVars>>
vars == <<expr, env, optimized, reoptimized, value, optValue, json, restored,
          source, enable_comments, offset, line, column, tokens, lexState,
          lexError, parsed, error, formatted, printed, reparsed, repl_env,
          debug, last_expr, last_source, replState, output, input_line>>

(***************************************************************************)
(* Bounds                                                                  *)
(***************************************************************************)
MaxNodes == 6        \* largest AST (node count) drawn as an input
MaxSourceLen == 4    \* longest source text handed to the tokenizer
MaxTokens == 5       \* longest free-form word list handed to the parser
MaxOperands == 3     \* longest operand chain handed to the parser

\* "not computed yet" / Python None
None == [node |-> "None"]

(***************************************************************************)
(* AST nodes (src/ast.py)                                                  *)
(***************************************************************************)
Var(name) == [node |-> "Var", name |-> name]
BoolLit(v) == [node |-> "BoolLit", value |-> v]
Not(e) == [node |-> "Not", expr |-> e]
And(l, r) == [node |-> "And", left |-> l, right |-> r]
Or(l, r) == [node |-> "Or", left |-> l, right |-> r]

\* variable names used in input expressions and environments
Names == {<<"A">>, <<"B">>}

Leaves == {Var(n) : n \in Names} \cup {BoolLit(TRUE), BoolLit(FALSE)}

\* every expression with exactly n nodes
RECURSIVE ExprsOfSize(_)
ExprsOfSize(n) ==
    IF n = 1 THEN Leaves
    ELSE {Not(e) : e \in ExprsOfSize(n - 1)} \cup
         UNION { UNION { {And(l, r), Or(l, r)} :
                         l \in ExprsOfSize(k), r \in ExprsOfSize(n - 1 - k) } :
                 k \in 1..(n - 2) }

Exprs == UNION {ExprsOfSize(n) : n \in 1..MaxNodes}

RECURSIVE NodeCount(_)
NodeCount(e) ==
    CASE e.node \in {"Var", "BoolLit"} -> 1
      [] e.node = "Not" -> 1 + NodeCount(e.expr)
      [] OTHER -> 1 + NodeCount(e.left) + NodeCount(e.right)

RECURSIVE VarsOf(_)
VarsOf(e) ==
    CASE e.node = "Var" -> {e.name}
      [] e.node = "BoolLit" -> {}
      [] e.node = "Not" -> VarsOf(e.expr)
      [] OTHER -> VarsOf(e.left) \cup VarsOf(e.right)

(***************************************************************************)
(* Optimizer (src/optimizer.py)                                            *)
(***************************************************************************)
isBoolLit(e) == e.node = "BoolLit"

RECURSIVE Optimizer_accept(_)

Optimizer_visit_var(e) == e

Optimizer_visit_bool_lit(e) == e

Optimizer_visit_not_swapped(e) ==
    LET operand == Optimizer_accept(e.expr) IN
    IF isBoolLit(operand) /\ operand.value THEN BoolLit(TRUE)
    ELSE IF isBoolLit(operand) /\ ~operand.value THEN BoolLit(FALSE)
    ELSE IF operand.node = "Not" THEN operand.expr
    ELSE IF operand # e.expr THEN Not(operand)
    ELSE e

Optimizer_visit_not_keeps_double(e) ==
    LET operand == Optimizer_accept(e.expr) IN
    IF isBoolLit(operand) /\ operand.value THEN BoolLit(FALSE)
    ELSE IF isBoolLit(operand) /\ ~operand.value THEN BoolLit(TRUE)
    ELSE IF operand # e.expr THEN Not(operand)
    ELSE e

Optimizer_visit_not(e) ==
    LET operand == Optimizer_accept(e.expr) IN
    IF isBoolLit(operand) /\ operand.value THEN BoolLit(FALSE)
    ELSE IF isBoolLit(operand) /\ ~operand.value THEN BoolLit(TRUE)
    ELSE IF operand.node = "Not" THEN operand.expr
    ELSE IF operand # e.expr THEN Not(operand)
    ELSE e

Optimizer_visit_and_rawright(e) ==
    LET left == Optimizer_accept(e.left)
        right == Optimizer_accept(e.right) IN
    IF isBoolLit(left) /\ left.value THEN e.right
    ELSE IF isBoolLit(left) /\ ~left.value THEN BoolLit(FALSE)
    ELSE IF isBoolLit(right) /\ right.value THEN left
    ELSE IF isBoolLit(right) /\ ~right.value THEN BoolLit(FALSE)
    ELSE IF left # e.left \/ right # e.right THEN And(left, right)
    ELSE e

Optimizer_visit_and(e) ==
    LET left == Optimizer_accept(e.left)
        right == Optimizer_accept(e.right) IN
    IF isBoolLit(left) /\ left.value THEN right
    ELSE IF isBoolLit(left) /\ ~left.value THEN BoolLit(FALSE)
    ELSE IF isBoolLit(right) /\ right.value THEN left
    ELSE IF isBoolLit(right) /\ ~right.value THEN BoolLit(FALSE)
    ELSE IF left # e.left \/ right # e.right THEN And(left, right)
    ELSE e

Optimizer_visit_or_keeps_false_right(e) ==
    LET left == Optimizer_accept(e.left)
        right == Optimizer_accept(e.right) IN
    IF isBoolLit(left) /\ left.value THEN BoolLit(TRUE)
    ELSE IF isBoolLit(left) /\ ~left.value THEN right
    ELSE IF isBoolLit(right) /\ right.value THEN BoolLit(TRUE)
    ELSE IF left # e.left \/ right # e.right THEN Or(left, right)
    ELSE e

Optimizer_visit_or(e) ==
    LET left == Optimizer_accept(e.left)
        right == Optimizer_accept(e.right) IN
    IF isBoolLit(left) /\ left.value THEN BoolLit(TRUE)
    ELSE IF isBoolLit(left) /\ ~left.value THEN right
    ELSE IF isBoolLit(right) /\ right.value THEN BoolLit(TRUE)
    ELSE IF isBoolLit(right) /\ ~right.value THEN left
    ELSE IF left # e.left \/ right # e.right THEN Or(left, right)
    ELSE e

\* double dispatch: expr.accept(visitor) with visitor an Optimizer
Optimizer_accept(e) ==
    CASE e.node = "Var" -> Optimizer_visit_var(e)
      [] e.node = "BoolLit" -> Optimizer_visit_bool_lit(e)
      [] e.node = "Not" -> Optimizer_visit_not(e)
      [] e.node = "And" -> Optimizer_visit_and(e)
      [] e.node = "Or" -> Optimizer_visit_or(e)

optimize(e) == Optimizer_accept(e)

(***************************************************************************)
(* Python str values are sequences of one-character strings.               *)
(***************************************************************************)
UpperLetters == <<"A", "B", "C", "D", "E", "F", "G", "H", "I", "J", "K", "L", "M",
                  "N", "O", "P", "Q", "R", "S", "T", "U", "V", "W", "X", "Y", "Z">>
LowerLetters == <<"a", "b", "c", "d", "e", "f", "g", "h", "i", "j", "k", "l", "m",
                  "n", "o", "p", "q", "r", "s", "t", "u", "v", "w", "x", "y", "z">>
Digits == {"0", "1", "2", "3", "4", "5", "6", "7", "8", "9"}

Range(f) == {f[i] : i \in DOMAIN f}

\* str.upper() on one character and on a string
UpperOf ==
    [ch \in Range(LowerLetters) |->
        UpperLetters[CHOOSE i \in DOMAIN LowerLetters : LowerLetters[i] = ch]]
upper_char(ch) == IF ch \in DOMAIN UpperOf THEN UpperOf[ch] ELSE ch
upper(s) == [i \in 1..Len(s) |-> upper_char(s[i])]

\* str.lower() on one character and on a string
LowerOf ==
    [ch \in Range(UpperLetters) |->
        LowerLetters[CHOOSE i \in DOMAIN UpperLetters : UpperLetters[i] = ch]]
lower_char(ch) == IF ch \in DOMAIN LowerOf THEN LowerOf[ch] ELSE ch
lower(s) == [i \in 1..Len(s) |-> lower_char(s[i])]

(***************************************************************************)
(* Evaluator (src/evaluator.py)                                            *)
(* An outcome is either a returned value or the exception that escaped.    *)
(***************************************************************************)
PyBool(b) == [py |-> "bool", v |-> b]
PyInt(i) == [py |-> "int", n |-> i]

Returned(b) == [kind |-> "return", value |-> b]

\* the n of suggestions[:n] in the message of UnknownVariableError, and the
\* default max_distance of find_similar_variables
MessageSuggestionLimit == 3
DefaultMaxDistance == 3

\* seq[:n]
Prefix(seq, n) == SubSeq(seq, 1, IF Len(seq) < n THEN Len(seq) ELSE n)

\* UnknownVariableError(variable_name, suggestions): the suggestions field
\* and the suggestions its message lists
UnknownVariableError_message_lists_all(name, suggestions) ==
    [kind |-> "UnknownVariableError", variable_name |-> name,
     suggestions |-> suggestions, message_suggestions |-> suggestions]

UnknownVariableError(name, suggestions) ==
    [kind |-> "UnknownVariableError", variable_name |-> name,
     suggestions |-> suggestions,
     message_suggestions |-> Prefix(suggestions, MessageSuggestionLimit)]

Min2(a, b) == IF a <= b THEN a ELSE b

\* the inner loop of levenshtein_distance: current_row completed from the
\* cells it already holds
RECURSIVE fill_row(_, _, _, _)
fill_row(previous_row, current_row, c1, s2) ==
    IF Len(current_row) = Len(s2) + 1 THEN current_row
    ELSE LET j == Len(current_row)
             insertions == previous_row[j + 1] + 1
             deletions == current_row[j] + 1
             substitutions == previous_row[j] + (IF c1 # s2[j] THEN 1 ELSE 0) IN
         fill_row(previous_row,
                  Append(current_row, Min2(insertions, Min2(deletions, substitutions))),
                  c1, s2)

\* the outer loop of levenshtein_distance from the i-th character of s1 on
RECURSIVE levenshtein_rows(_, _, _, _)
levenshtein_rows(previous_row, s1, i, s2) ==
    IF i > Len(s1) THEN previous_row[Len(previous_row)]
    ELSE levenshtein_rows(fill_row(previous_row, <<i>>, s1[i], s2), s1, i + 1, s2)

RECURSIVE levenshtein_distance(_, _)
levenshtein_distance(s1, s2) ==
    IF Len(s1) < Len(s2) THEN levenshtein_distance(s2, s1)
    ELSE IF Len(s2) = 0 THEN Len(s1)
    ELSE levenshtein_rows([j \in 1..(Len(s2) + 1) |-> j - 1], s1, 1, s2)

\* ord() of the characters names are made of
DigitChars == <<"0", "1", "2", "3", "4", "5", "6", "7", "8", "9">>
IndexIn(seq, ch) == CHOOSE i \in DOMAIN seq : seq[i] = ch
OrdOf ==
    [ch \in Range(UpperLetters) \cup Range(LowerLetters) \cup Range(DigitChars) \cup {"_"} |->
        IF ch \in Range(DigitChars) THEN 47 + IndexIn(DigitChars, ch)
        ELSE IF ch \in Range(UpperLetters) THEN 64 + IndexIn(UpperLetters, ch)
        ELSE IF ch = "_" THEN 95
        ELSE 96 + IndexIn(LowerLetters, ch)]

\* a < b on str
RECURSIVE str_lt(_, _)
str_lt(a, b) ==
    IF Len(b) = 0 THEN FALSE
    ELSE IF Len(a) = 0 THEN TRUE
    ELSE IF a[1] = b[1] THEN str_lt(Tail(a), Tail(b))
    ELSE OrdOf[a[1]] < OrdOf[b[1]]

\* (distance, var) tuples and their order
Candidate(distance, var) == [distance |-> distance, var |-> var]
tuple_lt(c, d) ==
    c.distance < d.distance \/ (c.distance = d.distance /\ str_lt(c.var, d.var))

\* candidates.sort(key=lambda x: (x[0], x[1])); the vars are the keys of a
\* dict, hence distinct, so the order the candidates were appended in does
\* not show in the result
RECURSIVE sort_candidates(_)
sort_candidates(candidates) ==
    IF candidates = {} THEN <<>>
    ELSE LET first == CHOOSE c \in candidates :
                          \A d \in candidates : d = c \/ tuple_lt(c, d) IN
         <<first>> \o sort_candidates(candidates \ {first})

find_similar_variables_case_sensitive(variable_name, available_vars, max_distance) ==
    LET candidates ==
            {Candidate(levenshtein_distance(variable_name, var), var) :
                var \in {v \in available_vars :
                            levenshtein_distance(variable_name, v) <= max_distance}}
        sorted == sort_candidates(candidates) IN
    [i \in 1..Len(sorted) |-> sorted[i].var]

find_similar_variables(variable_name, available_vars, max_distance) ==
    LET candidates ==
            {Candidate(levenshtein_distance(lower(variable_name), lower(var)), var) :
                var \in {v \in available_vars :
                            levenshtein_distance(lower(variable_name), lower(v))
                                <= max_distance}}
        sorted == sort_candidates(candidates) IN
    [i \in 1..Len(sorted) |-> sorted[i].var]
TypeError(name) == [kind |-> "TypeError", variable_name |-> name]

\* values a caller may bind a name to: the two booleans and a non-boolean
EnvValues == {PyBool(TRUE), PyBool(FALSE), PyInt(1)}

\* every mapping from a subset of Names to EnvValues
Envs == UNION {[D -> EnvValues] : D \in SUBSET Names}

RECURSIVE Evaluator_accept(_, _)

Evaluator_visit_var_truthy(e, environment) ==
    IF e.name \notin DOMAIN environment
    THEN UnknownVariableError(e.name,
             find_similar_variables(e.name, DOMAIN environment, DefaultMaxDistance))
    ELSE IF environment[e.name].py # "bool" THEN Returned(TRUE)
    ELSE Returned(environment[e.name].v)

Evaluator_visit_var(e, environment) ==
    IF e.name \notin DOMAIN environment
    THEN UnknownVariableError(e.name,
             find_similar_variables(e.name, DOMAIN environment, DefaultMaxDistance))
    ELSE IF environment[e.name].py # "bool" THEN TypeError(e.name)
    ELSE Returned(environment[e.name].v)

Evaluator_visit_bool_lit(e, environment) == Returned(e.value)

Evaluator_visit_not(e, environment) ==
    LET operand == Evaluator_accept(e.expr, environment) IN
    IF operand.kind # "return" THEN operand
    ELSE Returned(~operand.value)

Evaluator_visit_and_lazy(e, environment) ==
    LET left == Evaluator_accept(e.left, environment) IN
    IF left.kind # "return" THEN left
    ELSE IF ~left.value THEN Returned(FALSE)
    ELSE LET right == Evaluator_accept(e.right, environment) IN
         IF right.kind # "return" THEN right
         ELSE Returned(left.value /\ right.value)

Evaluator_visit_and(e, environment) ==
    LET left == Evaluator_accept(e.left, environment) IN
    IF left.kind # "return" THEN left
    ELSE LET right == Evaluator_accept(e.right, environment) IN
         IF right.kind # "return" THEN right
         ELSE Returned(left.value /\ right.value)

Evaluator_visit_or_conj(e, environment) ==
    LET left == Evaluator_accept(e.left, environment) IN
    IF left.kind # "return" THEN left
    ELSE LET right == Evaluator_accept(e.right, environment) IN
         IF right.kind # "return" THEN right
         ELSE Returned(left.value /\ right.value)

Evaluator_visit_or(e, environment) ==
    LET left == Evaluator_accept(e.left, environment) IN
    IF left.kind # "return" THEN left
    ELSE LET right == Evaluator_accept(e.right, environment) IN
         IF right.kind # "return" THEN right
         ELSE Returned(left.value \/ right.value)

\* double dispatch: expr.accept(visitor) with visitor an Evaluator
Evaluator_accept(e, environment) ==
    CASE e.node = "Var" -> Evaluator_visit_var(e, environment)
      [] e.node = "BoolLit" -> Evaluator_visit_bool_lit(e, environment)
      [] e.node = "Not" -> Evaluator_visit_not(e, environment)
      [] e.node = "And" -> Evaluator_visit_and(e, environment)
      [] e.node = "Or" -> Evaluator_visit_or(e, environment)

evaluate(e, environment) == Evaluator_accept(e, environment)

(***************************************************************************)
(* JSON serialisation (src/ast.py).  A JSON object is a function from its  *)
(* keys to values; from_json yields the decoded tree or the exception.     *)
(***************************************************************************)
RECURSIVE to_json(_)
to_json(e) ==
    CASE e.node = "Var" -> [type |-> "Var", name |-> e.name]
      [] e.node = "BoolLit" -> [type |-> "BoolLit", value |-> e.value]
      [] e.node = "Not" -> [type |-> "Not", expr |-> to_json(e.expr)]
      [] e.node = "And" -> [type |-> "And", left |-> to_json(e.left), right |-> to_json(e.right)]
      [] e.node = "Or" -> [type |-> "Or", left |-> to_json(e.left), right |-> to_json(e.right)]

Decoded(t) == [kind |-> "return", tree |-> t]
KeyError(k) == [kind |-> "KeyError", key |-> k]
ValueError == [kind |-> "ValueError"]

\* data.get("type"): the tag, or None when the key is absent
GetType(data) == IF "type" \in DOMAIN data THEN data.type ELSE "None"

RECURSIVE from_json(_)

from_json_and_swapped(data) ==
    IF "left" \notin DOMAIN data THEN KeyError("left")
    ELSE LET l == from_json(data.left) IN
         IF l.kind # "return" THEN l
         ELSE IF "right" \notin DOMAIN data THEN KeyError("right")
         ELSE LET r == from_json(data.right) IN
              IF r.kind # "return" THEN r
              ELSE Decoded(And(r.tree, l.tree))

\* And(left=from_json(data["left"]), right=from_json(data["right"]))
from_json_and(data) ==
    IF "left" \notin DOMAIN data THEN KeyError("left")
    ELSE LET l == from_json(data.left) IN
         IF l.kind # "return" THEN l
         ELSE IF "right" \notin DOMAIN data THEN KeyError("right")
         ELSE LET r == from_json(data.right) IN
              IF r.kind # "return" THEN r
              ELSE Decoded(And(l.tree, r.tree))

\* Or(left=from_json(data["left"]), right=from_json(data["right"]))
from_json_or_lenient(data) ==
    IF "left" \notin DOMAIN data THEN KeyError("left")
    ELSE LET l == from_json(data.left) IN
         IF l.kind # "return" THEN l
         ELSE IF "right" \notin DOMAIN data THEN l
         ELSE LET r == from_json(data.right) IN
              IF r.kind # "return" THEN l
              ELSE Decoded(Or(l.tree, r.tree))

from_json_or(data) ==
    IF "left" \notin DOMAIN data THEN KeyError("left")
    ELSE LET l == from_json(data.left) IN
         IF l.kind # "return" THEN l
         ELSE IF "right" \notin DOMAIN data THEN KeyError("right")
         ELSE LET r == from_json(data.right) IN
              IF r.kind # "return" THEN r
              ELSE Decoded(Or(l.tree, r.tree))

from_json(data) ==
    LET node_type == GetType(data) IN
    IF node_type = "Var" THEN
        IF "name" \in DOMAIN data THEN Decoded(Var(data.name)) ELSE KeyError("name")
    ELSE IF node_type = "BoolLit" THEN
        IF "value" \in DOMAIN data THEN Decoded(BoolLit(data.value)) ELSE KeyError("value")
    ELSE IF node_type = "Not" THEN
        IF "expr" \notin DOMAIN data THEN KeyError("expr")
        ELSE LET inner == from_json(data.expr) IN
             IF inner.kind # "return" THEN inner ELSE Decoded(Not(inner.tree))
    ELSE IF node_type = "And" THEN from_json_and(data)
    ELSE IF node_type = "Or" THEN from_json_or(data)
    ELSE ValueError

(***************************************************************************)
(* Tokenizer (src/tokenizer.py).  Offsets are 0-based as in Python: the    *)
(* character at offset o of src is src[o + 1].                             *)
(***************************************************************************)
\* the character classes of _IDENT_RE, _WHITESPACE_RE and _COMMENT_RE
IdentStartChars == Range(UpperLetters) \cup Range(LowerLetters) \cup {"_"}
IdentPartChars == IdentStartChars \cup Digits
WhitespaceChars == {" ", "\t", "\n", "\r", "\f"}
IsIdentStart(ch) == ch \in IdentStartChars
IsIdentPart(ch) == ch \in IdentPartChars
IsWhitespace(ch) == ch \in WhitespaceChars
IsCommentBody(ch) == ch # "\n"

KW_AND == <<"A", "N", "D">>
KW_OR == <<"O", "R">>
KW_NOT == <<"N", "O", "T">>
KW_TRUE == <<"T", "R", "U", "E">>
KW_FALSE == <<"F", "A", "L", "S", "E">>

\* the keys of _KEYWORDS
Keywords == {KW_AND, KW_OR, KW_NOT, KW_TRUE, KW_FALSE}

\* _KEYWORDS.get(upper, TokenType.IDENT)
KeywordType_prefix(up) ==
    IF \E k \in Keywords : Len(up) >= Len(k) /\ SubSeq(up, 1, Len(k)) = k
    THEN LET k == CHOOSE k \in Keywords : Len(up) >= Len(k) /\ SubSeq(up, 1, Len(k)) = k IN
         IF k \in {KW_TRUE, KW_FALSE} THEN "BOOL"
         ELSE IF k = KW_AND THEN "AND" ELSE IF k = KW_OR THEN "OR" ELSE "NOT"
    ELSE "IDENT"

KeywordType(up) ==
    CASE up = KW_AND -> "AND"
      [] up = KW_OR -> "OR"
      [] up = KW_NOT -> "NOT"
      [] up = KW_TRUE -> "BOOL"
      [] up = KW_FALSE -> "BOOL"
      [] OTHER -> "IDENT"

SourceLocation(l, c, o) == [line |-> l, column |-> c, offset |-> o]
Token(type, lexeme, location) == [type |-> type, lexeme |-> lexeme, location |-> location]

\* the cursor of a Lexer: (offset, line, column)
Cursor(o, l, c) == [offset |-> o, line |-> l, column |-> c]
StartCursor == Cursor(0, 1, 1)

_current_location(cur) == SourceLocation(cur.line, cur.column, cur.offset)

\* one iteration of the loop of Lexer._advance
advance_one_noreset(src, cur) ==
    IF cur.offset < Len(src)
    THEN IF src[cur.offset + 1] = "\n"
         THEN Cursor(cur.offset + 1, cur.line + 1, cur.column + 1)
         ELSE Cursor(cur.offset + 1, cur.line, cur.column + 1)
    ELSE cur

advance_one(src, cur) ==
    IF cur.offset < Len(src)
    THEN IF src[cur.offset + 1] = "\n"
         THEN Cursor(cur.offset + 1, cur.line + 1, 1)
         ELSE Cursor(cur.offset + 1, cur.line, cur.column + 1)
    ELSE cur

RECURSIVE _advance(_, _, _)
_advance(src, cur, count) ==
    IF count = 0 THEN cur ELSE _advance(src, advance_one(src, cur), count - 1)

\* length of the maximal run of characters of a class starting at offset o
RECURSIVE WhitespaceRun(_, _)
WhitespaceRun(src, o) ==
    IF o < Len(src) /\ IsWhitespace(src[o + 1]) THEN 1 + WhitespaceRun(src, o + 1) ELSE 0

RECURSIVE CommentBodyRun(_, _)
CommentBodyRun(src, o) ==
    IF o < Len(src) /\ IsCommentBody(src[o + 1]) THEN 1 + CommentBodyRun(src, o + 1) ELSE 0

RECURSIVE IdentPartRun(_, _)
IdentPartRun(src, o) ==
    IF o < Len(src) /\ IsIdentPart(src[o + 1]) THEN 1 + IdentPartRun(src, o + 1) ELSE 0

\* pattern.match(source, offset): the length of the match, or NoMatch
NoMatch == -1
match_WHITESPACE_RE(src, o) ==
    LET n == WhitespaceRun(src, o) IN IF n >= 1 THEN n ELSE NoMatch
match_COMMENT_RE_to_end(src, o) ==
    IF o < Len(src) /\ src[o + 1] = "#" THEN Len(src) - o ELSE NoMatch

match_COMMENT_RE(src, o) ==
    IF o < Len(src) /\ src[o + 1] = "#" THEN 1 + CommentBodyRun(src, o + 1) ELSE NoMatch
match_IDENT_RE(src, o) ==
    IF o < Len(src) /\ IsIdentStart(src[o + 1]) THEN 1 + IdentPartRun(src, o + 1) ELSE NoMatch

RECURSIVE _skip_whitespace(_, _)
_skip_whitespace(src, cur) ==
    LET m == IF cur.offset < Len(src) THEN match_WHITESPACE_RE(src, cur.offset)
             ELSE NoMatch IN
    IF m # NoMatch THEN _skip_whitespace(src, _advance(src, cur, m)) ELSE cur

\* Lexer._skip_comment: the length skipped, NoMatch when it returns False
_skip_comment(src, comments, cur) ==
    IF ~comments THEN NoMatch ELSE match_COMMENT_RE(src, cur.offset)

\* the "while True" loop at the head of Lexer._read_token
RECURSIVE skip_blanks(_, _, _)
skip_blanks(src, comments, cur) ==
    LET afterWs == _skip_whitespace(src, cur)
        m == _skip_comment(src, comments, afterWs) IN
    IF m # NoMatch THEN skip_blanks(src, comments, _advance(src, afterWs, m))
    ELSE afterWs

SubStr(src, o, n) == [i \in 1..n |-> src[o + i]]

Lexed(tok, cur) == [kind |-> "token", token |-> tok, cursor |-> cur]

\* LexicalError(message naming ch, location, source), raised with the lexer
\* cursor at cur
LexicalError_consumed_source(ch, location, src, cur) ==
    [kind |-> "LexicalError", ch |-> ch, location |-> location,
     source |-> SubStr(src, 0, cur.offset), cursor |-> cur]

LexicalError(ch, location, src, cur) ==
    [kind |-> "LexicalError", ch |-> ch, location |-> location, source |-> src,
     cursor |-> cur]

\* Lexer._read_token: the token read and the cursor after it, or the error
_read_token(src, comments, cur0) ==
    LET cur == skip_blanks(src, comments, cur0)
        location == _current_location(cur) IN
    IF cur.offset >= Len(src) THEN Lexed(Token("EOF", <<>>, location), cur)
    ELSE LET ch == src[cur.offset + 1]
             m == match_IDENT_RE(src, cur.offset) IN
         IF ch = "(" THEN Lexed(Token("LPAREN", <<"(">>, location), _advance(src, cur, 1))
         ELSE IF ch = ")" THEN Lexed(Token("RPAREN", <<")">>, location), _advance(src, cur, 1))
         ELSE IF m # NoMatch THEN
             LET lexeme == SubStr(src, cur.offset, m)
                 up == upper(lexeme)
                 token_type == KeywordType(up)
                 final_lexeme == IF token_type # "IDENT" THEN up ELSE lexeme IN
             Lexed(Token(token_type, final_lexeme, location), _advance(src, cur, Len(lexeme)))
         ELSE LexicalError(ch, location, src, cur)

\* the test that ends the loop of Lexer.tokenize
ends_loop_on_paren(token) == token.type \in {"EOF", "RPAREN"}

ends_loop(token) == token.type = "EOF"

Tokens(toks) == [kind |-> "return", tokens |-> toks]

\* Lexer.tokenize run to completion: the token list, or the LexicalError
RECURSIVE tokenize_from(_, _, _, _)
tokenize_from(src, comments, cur, toks) ==
    LET r == _read_token(src, comments, cur) IN
    IF r.kind # "token" THEN r
    ELSE IF ends_loop(r.token) THEN Tokens(Append(toks, r.token))
    ELSE tokenize_from(src, comments, r.cursor, Append(toks, r.token))

tokenize(src, comments) == tokenize_from(src, comments, StartCursor, <<>>)

(***************************************************************************)
(* Parser (src/parser.py).  Parser.current is a 0-based index into the     *)
(* token list; a rule yields the tree and the cursor after it, or the      *)
(* error it raised.                                                        *)
(***************************************************************************)
_peek(toks, current, k) ==
    IF current + k >= Len(toks) THEN toks[Len(toks)] ELSE toks[current + k + 1]

_is_at_end(toks, current) == _peek(toks, current, 0).type = "EOF"

\* Parser._advance: the cursor after the call
Parser_advance(toks, current) ==
    IF ~_is_at_end(toks, current) THEN current + 1 ELSE current

_check(toks, current, token_type) ==
    IF _is_at_end(toks, current) THEN FALSE
    ELSE _peek(toks, current, 0).type = token_type

_error_location(toks, current) == _peek(toks, current, 0).location

Found(token) == [type |-> token.type, lexeme |-> token.lexeme]

Parsed(e, current) == [kind |-> "ok", expr |-> e, current |-> current]

\* UnexpectedTokenError(expected, found, location=token.location, source)
UnexpectedTokenError_nolocation(expected, token, src) ==
    [kind |-> "UnexpectedTokenError", expected |-> expected, found |-> Found(token),
     location |-> None, source |-> src]

UnexpectedTokenError(expected, token, src) ==
    [kind |-> "UnexpectedTokenError", expected |-> expected, found |-> Found(token),
     location |-> token.location, source |-> src]
\* MissingParenthesisError(kind, location, source)
MissingParenthesisError_unconverted(paren, location, src) ==
    [kind |-> "UnexpectedTokenError", expected |-> "parenthese fermante ')'",
     location |-> location, source |-> src]

MissingParenthesisError(paren, location, src) ==
    [kind |-> "MissingParenthesisError", paren |-> paren, location |-> location,
     source |-> src]
EndOfInputError(expected, location, src) ==
    [kind |-> "EndOfInputError", expected |-> expected, location |-> location,
     source |-> src]

\* Parser._consume: the cursor after the token, or UnexpectedTokenError
_consume(toks, src, current, token_type, expected) ==
    IF _check(toks, current, token_type)
    THEN [kind |-> "ok", current |-> Parser_advance(toks, current)]
    ELSE UnexpectedTokenError(expected, _peek(toks, current, 0), src)

PrimaryAlternatives == <<"identifiant", "booleen (TRUE/FALSE)", "parenthese ouvrante ('(')">>

RECURSIVE parse_or(_, _, _)
RECURSIVE parse_and(_, _, _)

\* the '(' branch of parse_primary, entered after the '(' was matched
parse_group_and_level(toks, src, current) ==
    LET inner == parse_and(toks, src, current) IN
    IF inner.kind # "ok" THEN inner
    ELSE LET closing == _consume(toks, src, inner.current, "RPAREN", "parenthese fermante ')'") IN
         IF closing.kind = "UnexpectedTokenError"
         THEN MissingParenthesisError("fermante", closing.location, src)
         ELSE Parsed(inner.expr, closing.current)

parse_group(toks, src, current) ==
    LET inner == parse_or(toks, src, current) IN
    IF inner.kind # "ok" THEN inner
    ELSE LET closing == _consume(toks, src, inner.current, "RPAREN", "parenthese fermante ')'") IN
         IF closing.kind = "UnexpectedTokenError"
         THEN MissingParenthesisError("fermante", closing.location, src)
         ELSE Parsed(inner.expr, closing.current)

parse_primary_default_at_end(toks, src, current) ==
    LET token == _peek(toks, current, 0) IN
    IF _check(toks, current, "BOOL")
    THEN Parsed(BoolLit(upper(token.lexeme) = KW_TRUE), Parser_advance(toks, current))
    ELSE IF _check(toks, current, "IDENT")
    THEN Parsed(Var(token.lexeme), Parser_advance(toks, current))
    ELSE IF _check(toks, current, "LPAREN")
    THEN parse_group(toks, src, Parser_advance(toks, current))
    ELSE IF _is_at_end(toks, current)
    THEN Parsed(BoolLit(FALSE), Parser_advance(toks, current))
    ELSE UnexpectedTokenError(PrimaryAlternatives, token, src)

parse_primary_no_eof_case(toks, src, current) ==
    LET token == _peek(toks, current, 0) IN
    IF _check(toks, current, "BOOL")
    THEN Parsed(BoolLit(upper(token.lexeme) = KW_TRUE), Parser_advance(toks, current))
    ELSE IF _check(toks, current, "IDENT")
    THEN Parsed(Var(token.lexeme), Parser_advance(toks, current))
    ELSE IF _check(toks, current, "LPAREN")
    THEN parse_group(toks, src, Parser_advance(toks, current))
    ELSE UnexpectedTokenError(PrimaryAlternatives, token, src)

parse_primary(toks, src, current) ==
    LET token == _peek(toks, current, 0) IN
    IF _check(toks, current, "BOOL")
    THEN Parsed(BoolLit(upper(token.lexeme) = KW_TRUE), Parser_advance(toks, current))
    ELSE IF _check(toks, current, "IDENT")
    THEN Parsed(Var(token.lexeme), Parser_advance(toks, current))
    ELSE IF _check(toks, current, "LPAREN")
    THEN parse_group(toks, src, Parser_advance(toks, current))
    ELSE IF _is_at_end(toks, current)
    THEN EndOfInputError("identifiant, booleen, ou parenthese ouvrante",
                         _error_location(toks, current), src)
    ELSE UnexpectedTokenError(PrimaryAlternatives, token, src)

RECURSIVE parse_not(_, _, _)
parse_not(toks, src, current) ==
    IF _check(toks, current, "NOT")
    THEN LET operand == parse_not(toks, src, Parser_advance(toks, current)) IN
         IF operand.kind # "ok" THEN operand
         ELSE Parsed(Not(operand.expr), operand.current)
    ELSE parse_primary(toks, src, current)

\* the "while self._match(TokenType.AND)" loop of parse_and
RECURSIVE parse_and_loop_right_assoc(_, _, _, _)
parse_and_loop_right_assoc(toks, src, current, e) ==
    IF _check(toks, current, "AND")
    THEN LET right == parse_not(toks, src, Parser_advance(toks, current)) IN
         IF right.kind # "ok" THEN right
         ELSE LET rest == parse_and_loop_right_assoc(toks, src, right.current, right.expr) IN
              IF rest.kind # "ok" THEN rest
              ELSE Parsed(And(e, rest.expr), rest.current)
    ELSE Parsed(e, current)

RECURSIVE parse_and_loop(_, _, _, _)
parse_and_loop(toks, src, current, e) ==
    IF _check(toks, current, "AND")
    THEN LET right == parse_not(toks, src, Parser_advance(toks, current)) IN
         IF right.kind # "ok" THEN right
         ELSE parse_and_loop(toks, src, right.current, And(e, right.expr))
    ELSE Parsed(e, current)

parse_and(toks, src, current) ==
    LET first == parse_not(toks, src, current) IN
    IF first.kind # "ok" THEN first
    ELSE parse_and_loop(toks, src, first.current, first.expr)

\* the "while self._match(TokenType.OR)" loop of parse_or
RECURSIVE parse_or_loop_not_level(_, _, _, _)
parse_or_loop_not_level(toks, src, current, e) ==
    IF _check(toks, current, "OR")
    THEN LET right == parse_not(toks, src, Parser_advance(toks, current)) IN
         IF right.kind # "ok" THEN right
         ELSE parse_or_loop_not_level(toks, src, right.current, Or(e, right.expr))
    ELSE Parsed(e, current)

RECURSIVE parse_or_loop(_, _, _, _)
parse_or_loop(toks, src, current, e) ==
    IF _check(toks, current, "OR")
    THEN LET right == parse_and(toks, src, Parser_advance(toks, current)) IN
         IF right.kind # "ok" THEN right
         ELSE parse_or_loop(toks, src, right.current, Or(e, right.expr))
    ELSE Parsed(e, current)

parse_or(toks, src, current) ==
    LET first == parse_and(toks, src, current) IN
    IF first.kind # "ok" THEN first
    ELSE parse_or_loop(toks, src, first.current, first.expr)

\* Parser.parse_expression on a fresh Parser (current = 0)
parse_expression_no_trailing_check(toks, src) == parse_or(toks, src, 0)

parse_expression(toks, src) ==
    LET e == parse_or(toks, src, 0) IN
    IF e.kind # "ok" THEN e
    ELSE IF ~_is_at_end(toks, e.current)
    THEN UnexpectedTokenError("fin d'expression", _peek(toks, e.current, 0), src)
    ELSE e

(***************************************************************************)
(* Specification Spec: the AST-level functions applied to an input tree.   *)
(* The tokenizer and parser variables stay idle.                           *)
(***************************************************************************)
NoSource == <<>>

LexIdle ==
    /\ source = NoSource
    /\ enable_comments = TRUE
    /\ offset = 0
    /\ line = 1
    /\ column = 1
    /\ tokens = <<>>
    /\ lexState = "idle"
    /\ lexError = None
    /\ parsed = None

AstIdle ==
    /\ expr = None
    /\ env = <<>>
    /\ optimized = None
    /\ reoptimized = None
    /\ value = None
    /\ optValue = None
    /\ json = None
    /\ restored = None

FmtIdle ==
    /\ error = None
    /\ formatted = None

PrettyIdle ==
    /\ printed = None
    /\ reparsed = None

ReplIdle ==
    /\ repl_env = <<>>
    /\ debug = FALSE
    /\ last_expr = None
    /\ last_source = NoSource
    /\ replState = "idle"
    /\ output = None
    /\ input_line = NoSource

ExtIdle == FmtIdle /\ PrettyIdle /\ ReplIdle

Init ==
    /\ expr \in Exprs
    /\ env \in Envs
    /\ optimized = None
    /\ reoptimized = None
    /\ value = None
    /\ optValue = None
    /\ json = None
    /\ restored = None
    /\ LexIdle
    /\ ExtIdle

\* evaluate(expr, env)
Evaluate ==
    /\ value = None
    /\ value' = evaluate(expr, env)
    /\ UNCHANGED <<expr, env, optimized, reoptimized, optValue, json, restored>>
    /\ UNCHANGED <<lexVars, parsed>>
    /\ UNCHANGED extVars

\* optimized = optimize(expr)
Optimize ==
    /\ value # None
    /\ optimized = None
    /\ optimized' = optimize(expr)
    /\ UNCHANGED <<expr, env, reoptimized, value, optValue, json, restored>>
    /\ UNCHANGED <<lexVars, parsed>>
    /\ UNCHANGED extVars

\* evaluate(optimized, env)
EvaluateOptimized ==
    /\ optimized # None
    /\ optValue = None
    /\ optValue' = evaluate(optimized, env)
    /\ UNCHANGED <<expr, env, optimized, reoptimized, value, json, restored>>
    /\ UNCHANGED <<lexVars, parsed>>
    /\ UNCHANGED extVars

\* optimize(optimized)
OptimizeAgain ==
    /\ optValue # None
    /\ reoptimized = None
    /\ reoptimized' = optimize(optimized)
    /\ UNCHANGED <<expr, env, optimized, value, optValue, json, restored>>
    /\ UNCHANGED <<lexVars, parsed>>
    /\ UNCHANGED extVars

\* json = expr.to_json()
ToJson ==
    /\ reoptimized # None
    /\ json = None
    /\ json' = to_json(expr)
    /\ UNCHANGED <<expr, env, optimized, reoptimized, value, optValue, restored>>
    /\ UNCHANGED <<lexVars, parsed>>
    /\ UNCHANGED extVars

\* restored = from_json(json)
FromJson ==
    /\ json # None
    /\ restored = None
    /\ restored' = from_json(json)
    /\ UNCHANGED <<expr, env, optimized, reoptimized, value, optValue, json>>
    /\ UNCHANGED <<lexVars, parsed>>
    /\ UNCHANGED extVars

Next ==
    \/ Evaluate
    \/ Optimize
    \/ EvaluateOptimized
    \/ OptimizeAgain
    \/ ToJson
    \/ FromJson

Spec == Init /\ [][Next]_vars

(***************************************************************************)
(* Specification SpecSuggest: evaluate applied to one variable looked up   *)
(* in an environment of at most MaxKeys longer names, some near the name   *)
(* looked up and some far from it.                                         *)
(***************************************************************************)
MaxKeys == 4

N_UNKNON == <<"U", "N", "K", "N", "O", "N">>
N_UNKNOWN == <<"U", "N", "K", "N", "O", "W", "N">>
N_unknown == <<"u", "n", "k", "n", "o", "w", "n">>
N_UNKNO == <<"U", "N", "K", "N", "O">>
N_UNK == <<"U", "N", "K">>
N_KNOWN == <<"K", "N", "O", "W", "N">>
N_OTHER == <<"O", "T", "H", "E", "R">>
N_UN == <<"U", "N">>

\* the keys environments are built from, and the names looked up
KeyPool == {N_UNKNOWN, N_unknown, N_UNKNO, N_UNK, N_KNOWN, N_OTHER, N_UN}
LookupNames == {N_UNKNON, N_UNK, N_OTHER}

InitSuggest ==
    /\ \E n \in LookupNames : expr = Var(n)
    /\ \E K \in SUBSET KeyPool :
           /\ Cardinality(K) <= MaxKeys
           /\ env \in [K -> {PyBool(TRUE), PyBool(FALSE)}]
    /\ optimized = None
    /\ reoptimized = None
    /\ value = None
    /\ optValue = None
    /\ json = None
    /\ restored = None
    /\ LexIdle
    /\ ExtIdle

NextSuggest == Evaluate

SpecSuggest == InitSuggest /\ [][NextSuggest]_vars

(***************************************************************************)
(* Specification SpecJson: from_json applied to the JSON object of a tree  *)
(* of at most MaxJsonNodes nodes, as written by to_json or with one node   *)
(* record damaged: its "type" removed or unknown, or one field removed.    *)
(***************************************************************************)
MaxJsonNodes == 4

\* the dict data without key f
Without(data, f) == [k \in DOMAIN data \ {f} |-> data[k]]

\* the objects that differ from data by the damage of one node record
RECURSIVE Damages(_)
Damages(data) ==
    LET here == {Without(data, f) : f \in DOMAIN data}
                    \cup {[data EXCEPT !.type = "Xor"]}
        below == IF data.type = "Not"
                 THEN {[data EXCEPT !.expr = d] : d \in Damages(data.expr)}
                 ELSE IF data.type \in {"And", "Or"}
                 THEN {[data EXCEPT !.left = d] : d \in Damages(data.left)}
                          \cup {[data EXCEPT !.right = d] : d \in Damages(data.right)}
                 ELSE {} IN
    here \cup below

InitJson ==
    /\ expr \in UNION {ExprsOfSize(n) : n \in 1..MaxJsonNodes}
    /\ json \in {to_json(expr)} \cup Damages(to_json(expr))
    /\ env = <<>>
    /\ optimized = None
    /\ reoptimized = None
    /\ value = None
    /\ optValue = None
    /\ restored = None
    /\ LexIdle
    /\ ExtIdle

NextJson == FromJson

SpecJson == InitJson /\ [][NextJson]_vars

(***************************************************************************)
(* Specification SpecLex: Lexer(source, enable_comments).tokenize(), one   *)
(* step per iteration of its loop, followed by Parser.parse_expression on  *)
(* the token list.  The AST-level variables stay idle.                     *)
(***************************************************************************)
\* the characters source texts are drawn from
Alphabet == {"A", "O", "R", "r", "1", "_", " ", "\n", "#", "(", ")", "&"}

CharSources == UNION {[1..n -> Alphabet] : n \in 0..MaxSourceLen}

\* the state after Lexer(source, enable_comments)
InitLex ==
    /\ source \in CharSources
    /\ enable_comments \in BOOLEAN
    /\ offset = 0
    /\ line = 1
    /\ column = 1
    /\ tokens = <<>>
    /\ lexState = "running"
    /\ lexError = None
    /\ parsed = None
    /\ AstIdle
    /\ ExtIdle

\* one iteration of the loop of Lexer.tokenize
ReadToken ==
    /\ lexState = "running"
    /\ LET r == _read_token(source, enable_comments, Cursor(offset, line, column)) IN
        /\ offset' = r.cursor.offset
        /\ line' = r.cursor.line
        /\ column' = r.cursor.column
        /\ IF r.kind = "token"
           THEN /\ tokens' = Append(tokens, r.token)
                /\ lexState' = IF ends_loop(r.token) THEN "done" ELSE "running"
                /\ lexError' = lexError
           ELSE /\ tokens' = tokens
                /\ lexState' = "error"
                /\ lexError' = [kind |-> r.kind, ch |-> r.ch, location |-> r.location,
                                source |-> r.source]
    /\ UNCHANGED <<source, enable_comments, parsed, astVars>>
    /\ UNCHANGED extVars

\* Parser(tokens=tokens, source=source).parse_expression()
ParseExpression_on_partial ==
    /\ lexState \in {"done", "error"}
    /\ parsed = None
    /\ parsed' = parse_expression(IF lexState = "done" THEN tokens
                                  ELSE Append(tokens, Token("EOF", <<>>, lexError.location)),
                                  source)
    /\ UNCHANGED <<lexVars, astVars>>
    /\ UNCHANGED extVars

ParseExpression ==
    /\ lexState = "done"
    /\ parsed = None
    /\ parsed' = parse_expression(tokens, source)
    /\ UNCHANGED <<lexVars, astVars>>
    /\ UNCHANGED extVars

NextLex ==
    \/ ReadToken
    \/ ParseExpression

SpecLex == InitLex /\ [][NextLex]_vars

(***************************************************************************)
(* Specification SpecWord: the same steps as SpecLex on sources that hold  *)
(* one identifier run built around a keyword: a keyword in any mix of      *)
(* cases, with at most one character before it and up to MaxSuffixLen      *)
(* after it, alone, between parentheses or before " Or".                   *)
(***************************************************************************)
MaxSuffixLen == 2

\* every spelling of word w in upper and lower case letters
RECURSIVE CaseSpellings(_)
CaseSpellings(w) ==
    IF Len(w) = 0 THEN {<<>>}
    ELSE {<<c>> \o rest : c \in {w[1], lower_char(w[1])}, rest \in CaseSpellings(Tail(w))}

KeywordSpellings == UNION {CaseSpellings(k) : k \in Keywords}

AffixChars == {"Y", "x", "_", "1"}
Prefixes == {<<>>} \cup {<<c>> : c \in AffixChars}
Suffixes == UNION {[1..n -> AffixChars] : n \in 0..MaxSuffixLen}
Leads == {<<>>, <<"(">>}
Trails == {<<>>, <<")">>, <<" ", "O", "r">>}

InitWord ==
    /\ \E lead \in Leads, p \in Prefixes, k \in KeywordSpellings, s \in Suffixes,
          trail \in Trails : source = lead \o p \o k \o s \o trail
    /\ enable_comments = TRUE
    /\ offset = 0
    /\ line = 1
    /\ column = 1
    /\ tokens = <<>>
    /\ lexState = "running"
    /\ lexError = None
    /\ parsed = None
    /\ AstIdle
    /\ ExtIdle

SpecWord == InitWord /\ [][NextLex]_vars

(***************************************************************************)
(* Specification SpecParse: Parser.parse_expression on the token list of   *)
(* a source made of up to MaxTokens words separated by single blanks.      *)
(***************************************************************************)
ID_A == <<"A">>
ID_B == <<"B">>
LPAR == <<"(">>
RPAR == <<")">>

Words == {ID_A, ID_B, KW_TRUE, KW_AND, KW_OR, KW_NOT, LPAR, RPAR}

\* every list of at most MaxTokens words
WordLists == UNION {[1..n -> Words] : n \in 0..MaxTokens}

\* primaries of the grammar, each with the words that spell it and the tree
\* the grammar assigns to it
Primaries ==
    { [words |-> <<ID_A>>, tree |-> Var(ID_A)],
      [words |-> <<ID_B>>, tree |-> Var(ID_B)],
      [words |-> <<KW_TRUE>>, tree |-> BoolLit(TRUE)],
      [words |-> <<LPAR, ID_A, KW_OR, ID_B, RPAR>>, tree |-> Or(Var(ID_A), Var(ID_B))] }

\* operands of AND / OR: a primary, possibly negated
Operands == {p.words : p \in Primaries} \cup {<<KW_NOT>> \o p.words : p \in Primaries}

\* operand (connective operand)*
RECURSIVE Interleave(_, _)
Interleave(operands, connectives) ==
    IF Len(operands) = 1 THEN operands[1]
    ELSE operands[1] \o <<connectives[1]>> \o Interleave(Tail(operands), Tail(connectives))

\* every chain of at most MaxOperands operands joined by AND / OR
ChainLists ==
    UNION { {Interleave(os, cs) : os \in [1..n -> Operands],
                                  cs \in [1..(n - 1) -> {KW_AND, KW_OR}]} :
            n \in 1..MaxOperands }

\* " ".join(ws)
RECURSIVE Join(_)
Join(ws) ==
    IF Len(ws) = 0 THEN <<>>
    ELSE IF Len(ws) = 1 THEN ws[1]
    ELSE ws[1] \o <<" ">> \o Join(Tail(ws))

InitParse ==
    /\ \/ \E ws \in WordLists : source = Join(ws)
       \/ \E ws \in ChainLists : source = Join(ws)
    /\ enable_comments = TRUE
    /\ tokens = tokenize(source, TRUE).tokens
    /\ offset = Len(source)
    /\ line = 1
    /\ column = Len(source) + 1
    /\ lexState = "done"
    /\ lexError = None
    /\ parsed = None
    /\ AstIdle
    /\ ExtIdle

NextParse == ParseExpression

SpecParse == InitParse /\ [][NextParse]_vars

(***************************************************************************)
(* Specification SpecDescent: Parser.parse_expression on the token list of *)
(* every list of up to MaxDescentTokens words, well formed or not.         *)
(***************************************************************************)
MaxDescentTokens == 4    \* longest word list handed to the parser

DescentLists == UNION {[1..n -> Words] : n \in 0..MaxDescentTokens}

InitDescent ==
    /\ \E ws \in DescentLists : source = Join(ws)
    /\ enable_comments = TRUE
    /\ tokens = tokenize(source, TRUE).tokens
    /\ offset = Len(source)
    /\ line = 1
    /\ column = Len(source) + 1
    /\ lexState = "done"
    /\ lexError = None
    /\ parsed = None
    /\ AstIdle
    /\ ExtIdle

NextDescent == ParseExpression

SpecDescent == InitDescent /\ [][NextDescent]_vars

(***************************************************************************)
(* Specification SpecFormat: CompilerError.format_error (src/errors.py) on *)
(* an error built from a message, an optional location and a source text.  *)
(* An absent source and an empty one take the same branch of               *)
(* `not self.source`; both are the empty text here.                        *)
(***************************************************************************)
MaxFormatLen == 4    \* longest source text carried by an error
MaxLine == 3         \* largest location.line
MaxColumn == 4       \* largest location.column

DefaultContextLines == 2

\* a str returned by a call
Text(s) == [kind |-> "return", text |-> s]

Max2(a, b) == IF a >= b THEN a ELSE b

Repeat(c, n) == [i \in 1..n |-> c]

\* str(n) for n >= 0
RECURSIVE str_int(_)
str_int(n) ==
    IF n < 10 THEN <<DigitChars[n + 1]>>
    ELSE str_int(n \div 10) \o <<DigitChars[(n % 10) + 1]>>

\* f"{n:4d}"
format_4d(n) ==
    LET s == str_int(n) IN Repeat(" ", Max2(0, 4 - Len(s))) \o s

\* str.splitlines(): the lines before index i are in done, cur is the line
\* being read
RECURSIVE splitlines_from(_, _, _, _)
splitlines_from(s, i, done, cur) ==
    IF i > Len(s) THEN IF cur = <<>> THEN done ELSE Append(done, cur)
    ELSE IF s[i] = "\r" /\ i < Len(s) /\ s[i + 1] = "\n"
         THEN splitlines_from(s, i + 2, Append(done, cur), <<>>)
    ELSE IF s[i] \in {"\n", "\r"}
         THEN splitlines_from(s, i + 1, Append(done, cur), <<>>)
    ELSE splitlines_from(s, i + 1, done, Append(cur, s[i]))

splitlines(s) == splitlines_from(s, 1, <<>>, <<>>)

\* "\n".join(parts)
RECURSIVE join_lines(_)
join_lines(parts) ==
    IF Len(parts) = 0 THEN <<>>
    ELSE IF Len(parts) = 1 THEN parts[1]
    ELSE parts[1] \o <<"\n">> \o join_lines(Tail(parts))

\* str(location)
SourceLocation_str(location) ==
    str_int(location.line) \o <<":">> \o str_int(location.column)

\* the arrow line built by format_error
arrow(location, error_line) ==
    Repeat(" ", location.column + 10)
        \o Repeat("^", Max2(1, Len(error_line) - location.column + 1))

\* the parts appended by the loop of format_error for lines i .. end_line - 1
RECURSIVE context_parts(_, _, _, _, _)
context_parts(lines, i, end_line, line_num, location) ==
    IF i >= end_line THEN <<>>
    ELSE LET marker == IF i = line_num THEN <<">", ">", ">">> ELSE <<" ", " ", " ">>
             shown == marker \o <<" ">> \o format_4d(i + 1) \o <<" ", "|", " ">>
                          \o lines[i + 1]
             under == <<" ", " ", " ", " ", " ", " ", " ", "|", " ">>
                          \o arrow(location, lines[line_num + 1]) IN
         (IF i = line_num THEN <<shown, under>> ELSE <<shown>>)
             \o context_parts(lines, i + 1, end_line, line_num, location)

\* CompilerError.format_error(context_lines)
format_error_with(e, context_lines) ==
    IF e.location = None \/ e.source = <<>> THEN e.message
    ELSE LET lines == splitlines(e.source)
             line_num == e.location.line - 1 IN
         IF line_num < 0 \/ line_num >= Len(lines) THEN e.message
         ELSE LET start_line == Max2(0, line_num - context_lines)
                  end_line == Min2(Len(lines), line_num + context_lines + 1)
                  parts == <<e.cls \o <<":", " ">> \o e.message,
                             <<" ", " ", "-", "-", ">", " ">>
                                 \o SourceLocation_str(e.location)>>
                           \o context_parts(lines, start_line, end_line, line_num,
                                            e.location) IN
              join_lines(parts)

format_error(e) == format_error_with(e, DefaultContextLines)

\* LexicalError.__name__
LexicalErrorName == <<"L", "e", "x", "i", "c", "a", "l", "E", "r", "r", "o", "r">>

CompilerError(cls, message, location, src) ==
    [cls |-> cls, message |-> message, location |-> location, source |-> src]

FormatAlphabet == {"A", "&", "\n", "\r"}

FormatSources == UNION {[1..n -> FormatAlphabet] : n \in 0..MaxFormatLen}

FormatLocations ==
    {None} \cup {SourceLocation(l, c, 0) : l \in 1..MaxLine, c \in 1..MaxColumn}

\* an error has been raised and caught; format_error has not been called
InitFormat ==
    /\ error \in {CompilerError(LexicalErrorName, <<"m", "s", "g">>, location, src) :
                      location \in FormatLocations, src \in FormatSources}
    /\ formatted = None
    /\ PrettyIdle
    /\ ReplIdle
    /\ LexIdle
    /\ AstIdle

\* formatted = error.format_error()
FormatError ==
    /\ error # None
    /\ formatted = None
    /\ formatted' = Text(format_error(error))
    /\ UNCHANGED <<error, prettyVars, replVars, lexVars, parsed, astVars>>

NextFormat == FormatError

SpecFormat == InitFormat /\ [][NextFormat]_vars

(***************************************************************************)
(* Specification SpecPretty: the smart pretty-printer (src/pretty.py) on   *)
(* an input tree, followed by parse (src/parser.py) on the printed text.   *)
(***************************************************************************)
MaxPrettyNodes == 5  \* largest AST (node count) handed to the pretty-printer

PREC_NOT == 3
PREC_AND == 2
PREC_OR == 1
PREC_PAREN == 0

CaseStyle_UPPER == "upper"
CaseStyle_LOWER == "lower"
CaseStyle_MIXED == "mixed"

PrettyOptions(case_style, show_parentheses, indent) ==
    [case_style |-> case_style, show_parentheses |-> show_parentheses,
     indent |-> indent]

\* str.capitalize()
capitalize(s) ==
    IF Len(s) = 0 THEN s ELSE upper(<<Head(s)>>) \o lower(Tail(s))

_format_keyword(options, keyword) ==
    IF options.case_style = CaseStyle_UPPER THEN upper(keyword)
    ELSE IF options.case_style = CaseStyle_LOWER THEN lower(keyword)
    ELSE capitalize(keyword)

_format_bool(options, v) ==
    IF options.case_style = CaseStyle_UPPER
    THEN IF v THEN KW_TRUE ELSE KW_FALSE
    ELSE IF options.case_style = CaseStyle_LOWER
    THEN IF v THEN lower(KW_TRUE) ELSE lower(KW_FALSE)
    ELSE IF v THEN capitalize(KW_TRUE) ELSE capitalize(KW_FALSE)

\* SmartPrettyPrinter._needs_parens under parent precedence parent
_needs_parens(options, expr_precedence, parent) ==
    IF options.show_parentheses = "always" THEN TRUE
    ELSE IF options.show_parentheses = "never" THEN FALSE
    ELSE expr_precedence < parent

InParens(s) == <<"(">> \o s \o <<")">>

_wrap_if_needed(options, s, expr_precedence, parent) ==
    IF _needs_parens(options, expr_precedence, parent) THEN InParens(s) ELSE s

\* expr.accept(printer) with printer._parent_precedence = parent
RECURSIVE SmartPrettyPrinter_accept(_, _, _)

SmartPrettyPrinter_visit_var(options, e, parent) == e.name

SmartPrettyPrinter_visit_bool_lit(options, e, parent) ==
    _format_bool(options, e.value)

SmartPrettyPrinter_visit_not(options, e, parent) ==
    LET not_keyword == _format_keyword(options, KW_NOT)
        operand_str == SmartPrettyPrinter_accept(options, e.expr, PREC_NOT)
        operand == IF e.expr.node = "Not" /\ _needs_parens(options, PREC_NOT, parent)
                   THEN InParens(operand_str) ELSE operand_str IN
    not_keyword \o <<" ">> \o operand

SmartPrettyPrinter_visit_and(options, e, parent) ==
    LET and_keyword == _format_keyword(options, KW_AND)
        left_str == SmartPrettyPrinter_accept(options, e.left, PREC_AND)
        right_str == SmartPrettyPrinter_accept(options, e.right, PREC_AND)
        left == IF e.left.node = "Or" /\ _needs_parens(options, PREC_OR, parent)
                THEN InParens(left_str) ELSE left_str
        right == IF e.right.node = "Or" /\ _needs_parens(options, PREC_OR, parent)
                 THEN InParens(right_str) ELSE right_str
        result == left \o <<" ">> \o and_keyword \o <<" ">> \o right IN
    _wrap_if_needed(options, result, PREC_AND, parent)

SmartPrettyPrinter_visit_or(options, e, parent) ==
    LET or_keyword == _format_keyword(options, KW_OR)
        left_str == SmartPrettyPrinter_accept(options, e.left, PREC_OR)
        right_str == SmartPrettyPrinter_accept(options, e.right, PREC_OR)
        result == left_str \o <<" ">> \o or_keyword \o <<" ">> \o right_str IN
    _wrap_if_needed(options, result, PREC_OR, parent)

SmartPrettyPrinter_accept(options, e, parent) ==
    CASE e.node = "Var" -> SmartPrettyPrinter_visit_var(options, e, parent)
      [] e.node = "BoolLit" -> SmartPrettyPrinter_visit_bool_lit(options, e, parent)
      [] e.node = "Not" -> SmartPrettyPrinter_visit_not(options, e, parent)
      [] e.node = "And" -> SmartPrettyPrinter_visit_and(options, e, parent)
      [] OTHER -> SmartPrettyPrinter_visit_or(options, e, parent)

\* SmartPrettyPrinter.format
SmartPrettyPrinter_format(options, e) ==
    SmartPrettyPrinter_accept(options, e, PREC_PAREN)

pretty_print(e, case_style, show_parentheses, indent) ==
    SmartPrettyPrinter_format(PrettyOptions(case_style, show_parentheses, indent), e)

\* parse(source): the whole source is tokenized, then parsed
parse(src) ==
    LET t == tokenize(src, TRUE) IN
    IF t.kind # "return" THEN t ELSE parse_expression(t.tokens, src)

PrettyExprs == UNION {ExprsOfSize(n) : n \in 1..MaxPrettyNodes}

InitPretty ==
    /\ expr \in PrettyExprs
    /\ env = <<>>
    /\ optimized = None
    /\ reoptimized = None
    /\ value = None
    /\ optValue = None
    /\ json = None
    /\ restored = None
    /\ printed = None
    /\ reparsed = None
    /\ FmtIdle
    /\ ReplIdle
    /\ LexIdle

\* printed = pretty_print(expr, show_parentheses="minimal")
PrettyPrint ==
    /\ printed = None
    /\ printed' = Text(pretty_print(expr, CaseStyle_UPPER, "minimal", 0))
    /\ UNCHANGED <<reparsed, fmtVars, replVars, lexVars, parsed, astVars>>

\* reparsed = parse(printed)
Reparse ==
    /\ printed # None
    /\ reparsed = None
    /\ reparsed' = parse(printed.text)
    /\ UNCHANGED <<printed, fmtVars, replVars, lexVars, parsed, astVars>>

NextPretty ==
    \/ PrettyPrint
    \/ Reparse

SpecPretty == InitPretty /\ [][NextPretty]_vars

(***************************************************************************)
(* Specification SpecRepl: the loop of REPL.run (src/repl.py), one step    *)
(* per line read: a command handled by _handle_command, or an expression   *)
(* parsed and evaluated in the session environment.                        *)
(***************************************************************************)
\* the command names tested by _handle_command
CMD_help == <<"h", "e", "l", "p">>
CMD_quit == <<"q", "u", "i", "t">>
CMD_exit == <<"e", "x", "i", "t">>
CMD_ast == <<"a", "s", "t">>
CMD_tokens == <<"t", "o", "k", "e", "n", "s">>
CMD_opt == <<"o", "p", "t">>
CMD_json == <<"j", "s", "o", "n">>
CMD_dot == <<"d", "o", "t">>
CMD_debug == <<"d", "e", "b", "u", "g">>
CMD_env == <<"e", "n", "v">>

\* the value words accepted by _parse_env and by :debug
WORD_true == <<"t", "r", "u", "e">>
WORD_false == <<"f", "a", "l", "s", "e">>
WORD_yes == <<"y", "e", "s">>
WORD_no == <<"n", "o">>
WORD_on == <<"o", "n">>
WORD_off == <<"o", "f", "f">>

DefaultDotFile == <<"a", "s", "t", ".", "d", "o", "t">>

\* str.lstrip() / str.rstrip() / str.strip()
RECURSIVE lstrip(_)
lstrip(s) ==
    IF Len(s) > 0 /\ Head(s) \in WhitespaceChars THEN lstrip(Tail(s)) ELSE s

RECURSIVE rstrip(_)
rstrip(s) ==
    IF Len(s) > 0 /\ s[Len(s)] \in WhitespaceChars
    THEN rstrip(SubSeq(s, 1, Len(s) - 1)) ELSE s

strip(s) == rstrip(lstrip(s))

startswith(s, p) == Len(s) >= Len(p) /\ SubSeq(s, 1, Len(p)) = p

\* index of the first character of s that is in C, Len(s) + 1 when none is
FirstIn(s, C) ==
    IF \A i \in 1..Len(s) : s[i] \notin C THEN Len(s) + 1
    ELSE CHOOSE i \in 1..Len(s) : s[i] \in C /\ \A j \in 1..(i - 1) : s[j] \notin C

\* s.split(None, 1)
split_whitespace_once(s) ==
    LET t == lstrip(s)
        k == FirstIn(t, WhitespaceChars)
        rest == lstrip(SubSeq(t, k, Len(t))) IN
    IF Len(t) = 0 THEN <<>>
    ELSE IF Len(rest) = 0 THEN <<SubSeq(t, 1, k - 1)>>
    ELSE <<SubSeq(t, 1, k - 1), rest>>

\* s.split(sep)
RECURSIVE split_char(_, _)
split_char(s, sep) ==
    LET k == FirstIn(s, {sep}) IN
    IF k > Len(s) THEN <<s>>
    ELSE <<SubSeq(s, 1, k - 1)>> \o split_char(SubSeq(s, k + 1, Len(s)), sep)

\* s.split(sep, 1)
split_char_once(s, sep) ==
    LET k == FirstIn(s, {sep}) IN
    IF k > Len(s) THEN <<s>>
    ELSE <<SubSeq(s, 1, k - 1), SubSeq(s, k + 1, Len(s))>>

Contains(s, c) == \E i \in 1..Len(s) : s[i] = c

\* env[name] = v
Bind(environment, name, v) ==
    [n \in DOMAIN environment \cup {name} |->
        IF n = name THEN v ELSE environment[n]]

\* env.update(new_env)
Updated(environment, new_env) ==
    [n \in DOMAIN environment \cup DOMAIN new_env |->
        IF n \in DOMAIN new_env THEN new_env[n] ELSE environment[n]]

TrueWords == {WORD_true, <<"1">>, WORD_yes, WORD_on}
FalseWords == {WORD_false, <<"0">>, WORD_no, WORD_off}

\* the body of the inner loop of _parse_env
_parse_env_pair(environment, pair) ==
    IF ~Contains(pair, "=") THEN environment
    ELSE LET nv == split_char_once(pair, "=")
             name == strip(nv[1])
             v == lower(strip(nv[2])) IN
         IF v \in TrueWords THEN Bind(environment, name, PyBool(TRUE))
         ELSE IF v \in FalseWords THEN Bind(environment, name, PyBool(FALSE))
         ELSE environment

RECURSIVE _parse_env_pairs(_, _)
_parse_env_pairs(environment, pairs) ==
    IF Len(pairs) = 0 THEN environment
    ELSE _parse_env_pairs(_parse_env_pair(environment, Head(pairs)), Tail(pairs))

RECURSIVE _parse_env_args(_, _)
_parse_env_args(environment, args) ==
    IF Len(args) = 0 THEN environment
    ELSE LET arg == Head(args)
             pairs == IF Contains(arg, ",") THEN split_char(arg, ",") ELSE <<arg>> IN
         _parse_env_args(_parse_env_pairs(environment, pairs), Tail(args))

_parse_env(args) == _parse_env_args(<<>>, args)

\* what one input line makes the REPL print
Nothing == [kind |-> "nothing"]
NonePrevious == [kind |-> "none_previous"]

\* the outcome of _handle_command: it returned should_quit with the REPL
\* object as self, or parts[0] raised IndexError
Handled(self, should_quit, out) ==
    [kind |-> "return", self |-> self, should_quit |-> should_quit, out |-> out]

IndexError == [kind |-> "IndexError"]

handle_debug(self, args) ==
    IF lower(args) \in {WORD_on, WORD_true, <<"1">>, WORD_yes}
    THEN Handled([self EXCEPT !.debug = TRUE], FALSE, [kind |-> "debug", on |-> TRUE])
    ELSE IF lower(args) \in {WORD_off, WORD_false, <<"0">>, WORD_no}
    THEN Handled([self EXCEPT !.debug = FALSE], FALSE, [kind |-> "debug", on |-> FALSE])
    ELSE Handled(self, FALSE, [kind |-> "debug", on |-> self.debug])

env_updated(updated) ==
    Handled(updated, FALSE, [kind |-> "env", shown_env |-> updated.env])

handle_env(self, args) ==
    IF Len(args) > 0
    THEN env_updated([self EXCEPT !.env = Updated(self.env, _parse_env(<<args>>))])
    ELSE Handled(self, FALSE, [kind |-> "env", shown_env |-> self.env])

\* what :opt prints for the optimized tree
opt_shown(optimized_expr) ==
    [kind |-> "opt", shown |-> optimized_expr,
     text |-> pretty_print(optimized_expr, CaseStyle_UPPER, "minimal", 0)]

\* the branches of _handle_command on cmd_name
handle_named(self, cmd_name, args) ==
    IF cmd_name = CMD_help THEN Handled(self, FALSE, [kind |-> "help"])
    ELSE IF cmd_name = CMD_quit \/ cmd_name = CMD_exit THEN Handled(self, TRUE, Nothing)
    ELSE IF cmd_name = CMD_ast
    THEN Handled(self, FALSE,
                 IF self.last_expr # None
                 THEN [kind |-> "ast", shown |-> self.last_expr] ELSE NonePrevious)
    ELSE IF cmd_name = CMD_tokens
    THEN Handled(self, FALSE,
                 IF Len(self.last_source) > 0
                 THEN [kind |-> "tokens", listed |-> tokenize(self.last_source, TRUE)]
                 ELSE NonePrevious)
    ELSE IF cmd_name = CMD_opt
    THEN Handled(self, FALSE,
                 IF self.last_expr # None
                 THEN opt_shown(optimize(self.last_expr))
                 ELSE NonePrevious)
    ELSE IF cmd_name = CMD_json
    THEN Handled(self, FALSE,
                 IF self.last_expr # None
                 THEN [kind |-> "json", dumped |-> to_json(self.last_expr)]
                 ELSE NonePrevious)
    ELSE IF cmd_name = CMD_dot
    THEN Handled(self, FALSE,
                 IF self.last_expr # None
                 THEN [kind |-> "dot", shown |-> self.last_expr,
                       filename |-> IF Len(args) > 0 THEN strip(args)
                                    ELSE DefaultDotFile]
                 ELSE NonePrevious)
    ELSE IF cmd_name = CMD_debug THEN handle_debug(self, args)
    ELSE IF cmd_name = CMD_env THEN handle_env(self, args)
    ELSE Handled(self, FALSE, [kind |-> "unknown_command", cmd_name |-> cmd_name])

\* _handle_command from parts = cmd.split(None, 1) on
handle_parts(self, parts) ==
    IF Len(parts) = 0 THEN IndexError
    ELSE handle_named(self, parts[1], IF Len(parts) > 1 THEN parts[2] ELSE <<>>)

\* _handle_command from the stripped line on
handle_stripped(self, stripped) ==
    IF ~startswith(stripped, <<":">>) THEN Handled(self, FALSE, Nothing)
    ELSE handle_parts(self, split_whitespace_once(lower(strip(Tail(stripped)))))

\* REPL._handle_command(line)
_handle_command(self, line0) == handle_stripped(self, strip(line0))

\* the loop of REPL.run after one pass: at the prompt again, left by break,
\* or left by an exception no handler caught
Continue(self, out) == [state |-> "prompt", self |-> self, out |-> out]
Break(self, out) == [state |-> "ended", self |-> self, out |-> out]
Unhandled(self, exc) == [state |-> "crashed", self |-> self, out |-> exc]

\* the loop body of REPL.run once evaluate(expr, self.env) has ended with r
after_evaluate(self, r) ==
    Continue(self,
             IF r.kind = "return" THEN [kind |-> "result", result |-> r.value]
             ELSE [kind |-> "eval_error", raised |-> r])

\* the loop body of REPL.run once parse(line) has ended with p
after_parse(self, p) ==
    IF p.kind # "ok" THEN Continue(self, [kind |-> "parse_error", raised |-> p])
    ELSE after_evaluate([self EXCEPT !.last_expr = p.expr],
                        evaluate(p.expr, self.env))

\* the expression branch of the loop body of REPL.run
run_expression(self, src) ==
    after_parse([self EXCEPT !.last_source = src], parse(src))

\* the loop body of REPL.run once _handle_command has ended with h
after_command(self, h) ==
    IF h.kind # "return" THEN Unhandled(self, h)
    ELSE IF h.should_quit THEN Break(h.self, h.out)
    ELSE Continue(h.self, h.out)

\* the loop body of REPL.run from the stripped line on
run_stripped(self, stripped) ==
    IF Len(stripped) = 0 THEN Continue(self, Nothing)
    ELSE IF startswith(stripped, <<":">>)
    THEN after_command(self, _handle_command(self, stripped))
    ELSE run_expression(self, stripped)

\* one pass of the loop of REPL.run on the line returned by input()
run_line(self, raw) == run_stripped(self, strip(raw))

\* the lines input() returns
LINE_A == <<"A">>
LINE_A_AND_B == <<"A", " ", "A", "N", "D", " ", "B">>
LINE_lex_error == <<"A", " ", "&">>
LINE_parse_error == <<"(", "A">>
LINE_blank == <<" ">>
LINE_colon == <<":">>
LINE_unknown == <<":", "f", "o", "o">>
LINE_quit == <<":", "q", "u", "i", "t">>
LINE_EXIT == <<" ", ":", "E", "X", "I", "T">>
LINE_env == <<":", "e", "n", "v">>
LINE_env_A_B ==
    <<":", "e", "n", "v", " ", "A", "=", "t", "r", "u", "e", ",", "B", "=",
      "f", "a", "l", "s", "e">>
LINE_env_B_ON == <<":", "e", "n", "v", " ", "B", "=", "O", "N">>
LINE_env_invalid ==
    <<":", "e", "n", "v", " ", "A", "=", "m", "a", "y", "b", "e">>
LINE_ast == <<":", "a", "s", "t">>
LINE_tokens == <<":", "t", "o", "k", "e", "n", "s">>
LINE_opt == <<":", "o", "p", "t">>
LINE_json == <<":", "j", "s", "o", "n">>
LINE_help == <<":", "h", "e", "l", "p">>
LINE_debug_on == <<":", "d", "e", "b", "u", "g", " ", "o", "n">>
LINE_debug == <<":", "d", "e", "b", "u", "g">>
LINE_dot == <<":", "d", "o", "t">>
LINE_debug_off == <<":", "d", "e", "b", "u", "g", " ", "o", "f", "f">>

InputLines ==
    {LINE_A, LINE_A_AND_B, LINE_lex_error, LINE_parse_error,
     LINE_blank, LINE_colon, LINE_unknown, LINE_quit,
     LINE_EXIT, LINE_env, LINE_env_A_B, LINE_env_B_ON,
     LINE_env_invalid, LINE_ast, LINE_tokens, LINE_opt,
     LINE_json, LINE_help, LINE_debug_on, LINE_debug,
     LINE_dot, LINE_debug_off}

\* the command-line arguments main hands to _parse_env
ARG_A_true == <<"A", "=", "t", "r", "u", "e">>
ARG_B_true == <<"B", "=", "t", "r", "u", "e">>

\* the REPL object
Self ==
    [env |-> repl_env, debug |-> debug, last_expr |-> last_expr,
     last_source |-> last_source]

\* REPL(_parse_env(argv)) has been built and run() has printed its banner
InitRepl ==
    /\ repl_env \in {_parse_env(argv) : argv \in {<<>>, <<ARG_A_true, ARG_B_true>>}}
    /\ debug = FALSE
    /\ last_expr = None
    /\ last_source = NoSource
    /\ replState = "prompt"
    /\ output = None
    /\ input_line = NoSource
    /\ FmtIdle
    /\ PrettyIdle
    /\ LexIdle
    /\ AstIdle

\* the REPL object and the loop state after a pass that ended as r
Stepped(r) ==
    /\ repl_env' = r.self.env
    /\ debug' = r.self.debug
    /\ last_expr' = r.self.last_expr
    /\ last_source' = r.self.last_source
    /\ replState' = r.state
    /\ output' = r.out

\* one pass of the loop of REPL.run: input() returns a line
ReadLine ==
    /\ replState = "prompt"
    /\ \E raw \in InputLines :
        /\ input_line' = raw
        /\ Stepped(run_line(Self, raw))
    /\ UNCHANGED <<fmtVars, prettyVars, lexVars, parsed, astVars>>

\* one pass of the loop of REPL.run: input() raises EOFError or
\* KeyboardInterrupt
ReadEOF ==
    /\ replState = "prompt"
    /\ replState' = "ended"
    /\ output' = [kind |-> "eof"]
    /\ UNCHANGED <<repl_env, debug, last_expr, last_source, input_line>>
    /\ UNCHANGED <<fmtVars, prettyVars, lexVars, parsed, astVars>>

NextRepl ==
    \/ ReadLine
    \/ ReadEOF

SpecRepl == InitRepl /\ [][NextRepl]_vars

(***************************************************************************)
(* Properties of the AST-level functions                                   *)
(***************************************************************************)
\* every variable of e is bound by environment to a boolean
BindsAll(e, environment) ==
    \A n \in VarsOf(e) : n \in DOMAIN environment /\ environment[n].py = "bool"

\* every variable of e that environment binds is bound to a boolean
BoundOnesAreBool(e, environment) ==
    \A n \in VarsOf(e) \cap DOMAIN environment : environment[n].py = "bool"

\* the variables of e that environment does not bind
Absent(e, environment) == VarsOf(e) \ DOMAIN environment

\* the standard truth value of e under an environment binding all its variables
RECURSIVE Truth(_, _)
Truth(e, environment) ==
    CASE e.node = "Var" -> environment[e.name].v
      [] e.node = "BoolLit" -> e.value
      [] e.node = "Not" -> ~Truth(e.expr, environment)
      [] e.node = "And" -> Truth(e.left, environment) /\ Truth(e.right, environment)
      [] e.node = "Or" -> Truth(e.left, environment) \/ Truth(e.right, environment)

\* C1: when env binds every variable of expr to a boolean, evaluating the
\* optimized tree returns the same boolean as evaluating the original tree.
OptimizerSoundness ==
    (value # None /\ optValue # None /\ BindsAll(expr, env))
        => (value.kind = "return" /\ optValue = value)

\* C1 witness: both evaluations ran on a tree with variables that the
\* optimizer rewrote.
OptimizerSoundnessWitness ==
    /\ value # None
    /\ optValue # None
    /\ BindsAll(expr, env)
    /\ VarsOf(expr) # {}
    /\ optimized # expr
    /\ optimized.node # "BoolLit"

\* C2: optimizing an already optimized tree returns it structurally unchanged.
OptimizeIdempotent ==
    reoptimized # None => reoptimized = optimized

\* C2 witness: the second pass ran on the result of folding a chain of three
\* NOTs.
OptimizeIdempotentWitness ==
    /\ reoptimized # None
    /\ expr = Not(Not(Not(Var(<<"A">>))))
    /\ optimized = Not(Var(<<"A">>))

\* the JSON object j has the "type" tag and exactly the child fields of e,
\* at every depth
RECURSIVE TaggedLike(_, _)
TaggedLike(j, e) ==
    /\ "type" \in DOMAIN j
    /\ j.type = e.node
    /\ CASE e.node = "Var" -> DOMAIN j = {"type", "name"} /\ j.name = e.name
         [] e.node = "BoolLit" -> DOMAIN j = {"type", "value"} /\ j.value = e.value
         [] e.node = "Not" -> DOMAIN j = {"type", "expr"} /\ TaggedLike(j.expr, e.expr)
         [] OTHER -> /\ DOMAIN j = {"type", "left", "right"}
                     /\ TaggedLike(j.left, e.left)
                     /\ TaggedLike(j.right, e.right)

\* C3: to_json tags every node with its variant and serialises the children
\* recursively, and from_json of that object returns a tree equal to expr.
JsonRoundTrip ==
    /\ json # None => TaggedLike(json, expr)
    /\ restored # None => (restored.kind = "return" /\ restored.tree = expr)

\* C3 witness: a tree with a binary node over distinct operands was restored.
JsonRoundTripWitness ==
    /\ restored # None
    /\ expr = And(Or(Var(<<"A">>), BoolLit(FALSE)), Not(Var(<<"B">>)))

\* the variables of e in the order evaluate visits them
RECURSIVE VisitOrder(_)
VisitOrder(e) ==
    CASE e.node = "Var" -> <<e.name>>
      [] e.node = "BoolLit" -> <<>>
      [] e.node = "Not" -> VisitOrder(e.expr)
      [] OTHER -> VisitOrder(e.left) \o VisitOrder(e.right)

\* name is bound by environment to a value that is not a boolean
NonBoolean(name, environment) ==
    name \in DOMAIN environment /\ environment[name].py # "bool"

\* the positions of VisitOrder(e) whose variable is absent or non-boolean
Faulty(e, environment) ==
    {i \in 1..Len(VisitOrder(e)) :
        \/ VisitOrder(e)[i] \notin DOMAIN environment
        \/ NonBoolean(VisitOrder(e)[i], environment)}

FirstFaulty(e, environment) ==
    VisitOrder(e)[CHOOSE i \in Faulty(e, environment) :
                     \A j \in Faulty(e, environment) : i <= j]

\* C23 as claimed: whenever expr references a variable bound to a
\* non-boolean, evaluate raises the type error, not UnknownVariableError,
\* and evaluate never returns a non-boolean.
TypeErrorWheneverReferenced ==
    value # None =>
        /\ (\E name \in VarsOf(expr) : NonBoolean(name, env)) => value.kind = "TypeError"
        /\ value.kind = "return" => value.value \in BOOLEAN

\* C23: evaluate raises for the first variable, in the order it visits them,
\* that is absent or bound to a non-boolean: TypeError naming it when it is
\* bound to a non-boolean, UnknownVariableError naming it when it is absent
\* (also when a variable bound to a non-boolean is referenced further on);
\* evaluate returns only when there is none, and then a boolean.
TypeErrorForFirstFaulty ==
    value # None =>
        /\ Faulty(expr, env) = {} <=> value.kind = "return"
        /\ value.kind = "return" => value.value \in BOOLEAN
        /\ Faulty(expr, env) # {} =>
               /\ value.variable_name = FirstFaulty(expr, env)
               /\ value.kind = IF NonBoolean(FirstFaulty(expr, env), env)
                               THEN "TypeError" ELSE "UnknownVariableError"

\* C23 witness: A AND B was evaluated with A bound to a boolean and B to a
\* non-boolean, and TypeError was raised for B.
TypeErrorForFirstFaultyWitness ==
    /\ value # None
    /\ expr = And(Var(<<"A">>), Var(<<"B">>))
    /\ env = [n \in Names |-> IF n = <<"A">> THEN PyBool(TRUE) ELSE PyInt(1)]
    /\ value = TypeError(<<"B">>)

\* every node record of the object j has a known "type" and the fields of
\* its variant
RECURSIVE WellFormed(_)
WellFormed(j) ==
    /\ "type" \in DOMAIN j
    /\ j.type \in {"Var", "BoolLit", "Not", "And", "Or"}
    /\ CASE j.type = "Var" -> "name" \in DOMAIN j
         [] j.type = "BoolLit" -> "value" \in DOMAIN j
         [] j.type = "Not" -> "expr" \in DOMAIN j /\ WellFormed(j.expr)
         [] OTHER -> /\ "left" \in DOMAIN j
                     /\ "right" \in DOMAIN j
                     /\ WellFormed(j.left)
                     /\ WellFormed(j.right)

EvaluateSemantics ==
    value # None =>
        /\ BindsAll(expr, env) => value = Returned(Truth(expr, env))
        /\ (Absent(expr, env) # {} /\ BoundOnesAreBool(expr, env)) =>
               /\ value.kind = "UnknownVariableError"
               /\ value.variable_name \in Absent(expr, env)

\* C7 witness: a value was returned for a tree using Or, Not and a variable.
EvaluateSemanticsWitness ==
    /\ value # None
    /\ BindsAll(expr, env)
    /\ expr = Or(Var(<<"A">>), Not(Var(<<"B">>)))
    /\ value = Returned(FALSE)

\* C8: And / Or evaluate the left operand, then always the right operand: a
\* failure in the left operand is the one reported, and a right operand with
\* an unbound variable fails the evaluation even when the left operand alone
\* decides the truth value.
NoShortCircuit ==
    (value # None /\ expr.node \in {"And", "Or"} /\ BoundOnesAreBool(expr, env)) =>
        /\ Absent(expr.left, env) # {} =>
               /\ value.kind = "UnknownVariableError"
               /\ value.variable_name \in Absent(expr.left, env)
        /\ (Absent(expr.left, env) = {} /\ Absent(expr.right, env) # {}) =>
               /\ value.kind = "UnknownVariableError"
               /\ value.variable_name \in Absent(expr.right, env)

\* C8 witness: And whose left operand is false and whose right operand
\* references an unbound variable raised UnknownVariableError.
NoShortCircuitWitness ==
    /\ value # None
    /\ expr.node = "And"
    /\ BindsAll(expr.left, env)
    /\ ~Truth(expr.left, env)
    /\ Absent(expr.right, env) # {}
    /\ value.kind = "UnknownVariableError"

\* the rewrite rules applied bottom-up: the children first, then the rule
\* for the node with l, r, x the rewritten children
RECURSIVE Rewritten(_)
Rewritten(e) ==
    IF e.node = "Not" THEN
        LET x == Rewritten(e.expr) IN
        IF x = BoolLit(TRUE) THEN BoolLit(FALSE)
        ELSE IF x = BoolLit(FALSE) THEN BoolLit(TRUE)
        ELSE IF x.node = "Not" THEN x.expr
        ELSE Not(x)
    ELSE IF e.node = "And" THEN
        LET l == Rewritten(e.left)
            r == Rewritten(e.right) IN
        IF l = BoolLit(TRUE) THEN r
        ELSE IF l = BoolLit(FALSE) THEN BoolLit(FALSE)
        ELSE IF r = BoolLit(TRUE) THEN l
        ELSE IF r = BoolLit(FALSE) THEN BoolLit(FALSE)
        ELSE And(l, r)
    ELSE IF e.node = "Or" THEN
        LET l == Rewritten(e.left)
            r == Rewritten(e.right) IN
        IF l = BoolLit(TRUE) THEN BoolLit(TRUE)
        ELSE IF l = BoolLit(FALSE) THEN r
        ELSE IF r = BoolLit(TRUE) THEN BoolLit(TRUE)
        ELSE IF r = BoolLit(FALSE) THEN l
        ELSE Or(l, r)
    ELSE e

\* e holds no literal, and no NOT directly under a NOT
RECURSIVE NothingToRewrite(_)
NothingToRewrite(e) ==
    CASE e.node = "Var" -> TRUE
      [] e.node = "BoolLit" -> FALSE
      [] e.node = "Not" -> e.expr.node # "Not" /\ NothingToRewrite(e.expr)
      [] OTHER -> NothingToRewrite(e.left) /\ NothingToRewrite(e.right)

\* C17: optimize(e) is the result of one bottom-up pass of the rewrite rules
\* (NOT of a literal folds, NOT NOT x gives x, a literal operand of AND / OR
\* absorbs or disappears, the left operand being looked at first); TRUE AND
\* (FALSE OR A) gives the variable A, and a tree with no literal and no NOT
\* directly under NOT comes back unchanged.
OptimizerRewriteRules ==
    optimized # None =>
        /\ optimized = Rewritten(expr)
        /\ expr = And(BoolLit(TRUE), Or(BoolLit(FALSE), Var(<<"A">>))) =>
               optimized = Var(<<"A">>)
        /\ NothingToRewrite(expr) => optimized = expr

\* C17 witness: TRUE AND (FALSE OR A) was optimized to the variable A.
OptimizerRewriteRulesWitness ==
    /\ expr = And(BoolLit(TRUE), Or(BoolLit(FALSE), Var(<<"A">>)))
    /\ optimized = Var(<<"A">>)

\* C27: optimize(e) is a single literal, or a tree with no literal in it and
\* no NOT directly under a NOT; it has at most as many nodes as e and only
\* variables of e, so an expression without variables folds to one literal.
OptimizerNormalForm ==
    optimized # None =>
        /\ isBoolLit(optimized) \/ NothingToRewrite(optimized)
        /\ NodeCount(optimized) <= NodeCount(expr)
        /\ VarsOf(optimized) \subseteq VarsOf(expr)
        /\ VarsOf(expr) = {} => isBoolLit(optimized)

\* C27 witness: NOT NOT (A AND TRUE), five nodes with a NOT under a NOT and
\* a literal, was optimized to the variable A.
OptimizerNormalFormWitness ==
    /\ expr = Not(Not(And(Var(<<"A">>), BoolLit(TRUE))))
    /\ optimized = Var(<<"A">>)

\* the edit distance between a and b: the least number of insertions,
\* deletions and substitutions of one character that turn a into b
RECURSIVE EditDistance(_, _)
EditDistance(a, b) ==
    IF Len(a) = 0 THEN Len(b)
    ELSE IF Len(b) = 0 THEN Len(a)
    ELSE IF a[1] = b[1] THEN EditDistance(Tail(a), Tail(b))
    ELSE 1 + Min2(EditDistance(Tail(a), Tail(b)),
                  Min2(EditDistance(Tail(a), b), EditDistance(a, Tail(b))))

\* the distance the suggestion search ranks key k by when n is looked up
Nearness(n, k) == EditDistance(lower(n), lower(k))

UnknownVariableRaised == value # None /\ value.kind = "UnknownVariableError"

\* C18: the suggestions computed for a missing name are exactly the keys of
\* the environment at edit distance at most 3 from it, case ignored, each
\* once, in ascending order of (distance, key); a key at distance 1 (UNKNOWN
\* for UNKNON) is among them.
SuggestionSearch ==
    UnknownVariableRaised =>
        LET n == value.variable_name
            list == value.suggestions
            near == [k \in DOMAIN env |-> Nearness(n, k)] IN
        /\ n = expr.name
        /\ Range(list) = {k \in DOMAIN env : near[k] <= 3}
        /\ Len(list) = Cardinality(Range(list))
        /\ \A i, j \in 1..Len(list) :
               i < j => \/ near[list[i]] < near[list[j]]
                        \/ /\ near[list[i]] = near[list[j]]
                           /\ str_lt(list[i], list[j])
        /\ \A k \in DOMAIN env : near[k] = 1 => k \in Range(list)
        /\ (n = N_UNKNON /\ N_UNKNOWN \in DOMAIN env) => N_UNKNOWN \in Range(list)

\* C18 witness: UNKNON was looked up among UNKNOWN, unknown, UNK and OTHER;
\* the first three were suggested in that order and OTHER was not.
SuggestionSearchWitness ==
    /\ UnknownVariableRaised
    /\ value.variable_name = N_UNKNON
    /\ DOMAIN env = {N_UNKNOWN, N_unknown, N_UNK, N_OTHER}
    /\ value.suggestions = <<N_UNKNOWN, N_unknown, N_UNK>>

\* C19 as claimed: the suggestions field of the error has at most 3 entries.
SuggestionsFieldAtMostThree ==
    UnknownVariableRaised => Len(value.suggestions) <= 3

\* C19: UnknownVariableError embeds the name looked up; its message lists
\* at most 3 suggestions, the first ones of the ranked list, and its
\* suggestions field carries the ranked list whole, one entry for each key
\* within distance 3, however many there are.
MessageListsAtMostThree ==
    UnknownVariableRaised =>
        /\ value.variable_name = expr.name
        /\ Len(value.message_suggestions) <= 3
        /\ Len(value.message_suggestions) <= Len(value.suggestions)
        /\ \A i \in 1..Len(value.message_suggestions) :
               value.message_suggestions[i] = value.suggestions[i]
        /\ Len(value.suggestions) >= 3 => Len(value.message_suggestions) = 3
        /\ Len(value.suggestions) =
               Cardinality({k \in DOMAIN env : Nearness(expr.name, k) <= 3})

\* C19 witness: UNKNON was looked up with four keys within distance 3; the
\* error carries the four and its message lists three.
MessageListsAtMostThreeWitness ==
    /\ UnknownVariableRaised
    /\ value.variable_name = N_UNKNON
    /\ Len(value.suggestions) = 4
    /\ Len(value.message_suggestions) = 3

(***************************************************************************)
(* Properties of the parser                                                *)
(***************************************************************************)
Case(ws, t) == [text |-> Join(ws), tree |-> t]

\* the parse succeeded with the tree of every case whose text is the source
ParsesAs(cases) ==
    parsed # None =>
        \A c \in cases : source = c.text => (parsed.kind = "ok" /\ parsed.expr = c.tree)

PrecedenceCases ==
    UNION { { Case(x.words \o <<KW_OR>> \o y.words \o <<KW_AND, KW_NOT>> \o z.words,
                   Or(x.tree, And(y.tree, Not(z.tree)))),
              Case(x.words \o <<KW_AND>> \o y.words \o <<KW_OR>> \o z.words,
                   Or(And(x.tree, y.tree), z.tree)),
              Case(x.words \o <<KW_OR>> \o y.words \o <<KW_AND>> \o z.words,
                   Or(x.tree, And(y.tree, z.tree))),
              Case(<<KW_NOT>> \o x.words \o <<KW_AND>> \o y.words,
                   And(Not(x.tree), y.tree)),
              Case(<<KW_NOT>> \o x.words \o <<KW_OR>> \o y.words,
                   Or(Not(x.tree), y.tree)) } :
            x \in Primaries, y \in Primaries, z \in Primaries }

\* C4: NOT binds tighter than AND, which binds tighter than OR: for primaries
\* x, y, z the source "x OR y AND NOT z" parses to Or(x, And(y, Not(z))) and
\* "x AND y OR z" parses to Or(And(x, y), z).
Precedence == ParsesAs(PrecedenceCases)

\* C4 witness: "A OR ( A OR B ) AND NOT B" was parsed.
PrecedenceWitness ==
    /\ parsed # None
    /\ parsed.kind = "ok"
    /\ source = Join(<<ID_A, KW_OR, LPAR, ID_A, KW_OR, ID_B, RPAR, KW_AND, KW_NOT, ID_B>>)

\* n NOT words
RECURSIVE Nots(_)
Nots(n) == IF n = 0 THEN <<>> ELSE <<KW_NOT>> \o Nots(n - 1)

\* n nested Not nodes around t
RECURSIVE Negated(_, _)
Negated(n, t) == IF n = 0 THEN t ELSE Not(Negated(n - 1, t))

AssociativityCases ==
    UNION { { Case(a.words \o <<KW_OR>> \o b.words \o <<KW_OR>> \o c.words,
                   Or(Or(a.tree, b.tree), c.tree)),
              Case(a.words \o <<KW_AND>> \o b.words \o <<KW_AND>> \o c.words,
                   And(And(a.tree, b.tree), c.tree)) } :
            a \in Primaries, b \in Primaries, c \in Primaries }
    \cup { Case(Nots(n) \o p.words, Negated(n, p.tree)) :
           n \in 1..(MaxTokens - 1), p \in Primaries }

\* C5: chains of OR and of AND associate to the left, and n NOT words before
\* a primary p give n nested Not nodes around p.
Associativity == ParsesAs(AssociativityCases)

\* C5 witness: "A AND B AND TRUE" was parsed.
AssociativityWitness ==
    /\ parsed # None
    /\ parsed.kind = "ok"
    /\ source = Join(<<ID_A, KW_AND, ID_B, KW_AND, KW_TRUE>>)

\* the primaries that are parenthesised groups
Groups == {p \in Primaries : Len(p.words) > 1}

GroupCases ==
    UNION { { Case(g.words, g.tree),
              Case(g.words \o <<KW_AND>> \o z.words, And(g.tree, z.tree)),
              Case(z.words \o <<KW_AND>> \o g.words, And(z.tree, g.tree)),
              Case(z.words \o <<KW_OR>> \o g.words, Or(z.tree, g.tree)),
              Case(<<KW_NOT>> \o g.words, Not(g.tree)),
              Case(<<LPAR>> \o z.words \o <<RPAR>>, z.tree),
              Case(<<LPAR, LPAR>> \o z.words \o <<RPAR, RPAR>>, z.tree) } :
            g \in Groups, z \in Primaries }

\* C6: a parenthesised group is one operand whose tree is the tree of the
\* expression inside it, with no node for the parentheses: "( x OR y ) AND z"
\* parses to And(Or(x, y), z).
Parenthesization == ParsesAs(GroupCases)

\* C6 witness: "( A OR B ) AND TRUE" was parsed.
ParenthesizationWitness ==
    /\ parsed # None
    /\ parsed.kind = "ok"
    /\ source = Join(<<LPAR, ID_A, KW_OR, ID_B, RPAR, KW_AND, KW_TRUE>>)

(***************************************************************************)
(* Properties of the tokenizer                                             *)
(***************************************************************************)
\* the token list ends with its only EOF token
EndsWithOnlyEOF(toks) ==
    /\ Len(toks) >= 1
    /\ toks[Len(toks)].type = "EOF"
    /\ \A i \in 1..(Len(toks) - 1) : toks[i].type # "EOF"

\* one iteration of the loop of Lexer.tokenize either ends the loop (EOF read
\* or LexicalError raised) or moves the cursor forward
LoopProgress ==
    lexState = "running" => (lexState' \in {"done", "error"} \/ offset' > offset)

\* C9: tokenize stops, by returning or by raising: every iteration of its
\* loop that does not end it moves the cursor forward, the cursor never
\* passes the end of the source, so at most Len(source) + 1 tokens are read;
\* a returned token list is non-empty, ends with EOF and holds no other EOF.
TokenizeTerminatesWithEOF ==
    /\ [][LoopProgress]_vars
    /\ [](offset <= Len(source) /\ Len(tokens) <= Len(source) + 1)
    /\ [](lexState = "done" => EndsWithOnlyEOF(tokens))

\* C9 witness: tokenize returned three tokens for a source that ends with
\* blanks.
TokenizeTerminatesWithEOFWitness ==
    /\ lexState = "done"
    /\ Len(tokens) = 3
    /\ Len(source) = MaxSourceLen
    /\ source[Len(source)] = " "

\* offsets (0-based) of the newline characters before offset o
NewlinesBefore(src, o) == {i \in 0..(o - 1) : src[i + 1] = "\n"}

LineOf(src, o) == 1 + Cardinality(NewlinesBefore(src, o))

\* offset of the first character of the line that holds offset o
LineStart(src, o) ==
    IF NewlinesBefore(src, o) = {} THEN 0
    ELSE 1 + CHOOSE i \in NewlinesBefore(src, o) : \A j \in NewlinesBefore(src, o) : j <= i

ColumnOf(src, o) == 1 + (o - LineStart(src, o))

\* loc is the position of offset loc.offset in src
LocatedAt(src, loc) ==
    /\ loc.offset \in 0..Len(src)
    /\ loc.line = LineOf(src, loc.offset)
    /\ loc.column = ColumnOf(src, loc.offset)

\* the text of token t starts at its offset, and not earlier
StartsAtOffset(src, t) ==
    t.type # "EOF" =>
        /\ t.location.offset + Len(t.lexeme) <= Len(src)
        /\ Len(t.lexeme) >= 1
        /\ upper(SubStr(src, t.location.offset, Len(t.lexeme))) = upper(t.lexeme)
        /\ (t.type \notin {"LPAREN", "RPAREN"} /\ t.location.offset > 0)
               => ~IsIdentPart(src[t.location.offset])

\* C10: every token, and the location of a LexicalError, carries the offset
\* of its first character, line = 1 + newlines before it and column = 1 +
\* characters since the start of its line; token offsets strictly increase.
PositionTracking ==
    /\ \A i \in 1..Len(tokens) :
           /\ LocatedAt(source, tokens[i].location)
           /\ StartsAtOffset(source, tokens[i])
    /\ \A i \in 1..(Len(tokens) - 1) :
           tokens[i].location.offset < tokens[i + 1].location.offset
    /\ lexError # None =>
           /\ LocatedAt(source, lexError.location)
           /\ lexError.location.offset < Len(source)
           /\ source[lexError.location.offset + 1] = lexError.ch

\* C10 witness: a token was produced at line 2, column 2.
PositionTrackingWitness ==
    /\ lexState = "done"
    /\ \E i \in 1..Len(tokens) :
           /\ tokens[i].type = "IDENT"
           /\ tokens[i].location.line = 2
           /\ tokens[i].location.column = 2

\* the maximal run of identifier characters of src that starts at offset o
MaximalRun(src, o) ==
    LET n == CHOOSE n \in 0..(Len(src) - o) :
                 /\ \A i \in 1..n : IsIdentPart(src[o + i])
                 /\ (o + n = Len(src) \/ ~IsIdentPart(src[o + n + 1])) IN
    SubStr(src, o, n)

\* the offsets where a maximal run matching [A-Za-z_][A-Za-z0-9_]* starts
RunStarts(src) ==
    {o \in 0..(Len(src) - 1) :
        IsIdentStart(src[o + 1]) /\ (o = 0 \/ ~IsIdentPart(src[o]))}

\* token t is what the run text has to be emitted as
EmittedAs(t, text) ==
    LET up == upper(text) IN
    /\ t.type = "AND" <=> up = KW_AND
    /\ t.type = "OR" <=> up = KW_OR
    /\ t.type = "NOT" <=> up = KW_NOT
    /\ t.type = "BOOL" <=> up \in {KW_TRUE, KW_FALSE}
    /\ t.type = "IDENT" <=> up \notin {KW_AND, KW_OR, KW_NOT, KW_TRUE, KW_FALSE}
    /\ t.lexeme = IF t.type = "IDENT" THEN text ELSE up

IsWordToken(t) == t.type \notin {"EOF", "LPAREN", "RPAREN"}

\* C11: every token other than a parenthesis or EOF stands at the start of a
\* maximal identifier run; it is an AND / OR / NOT / BooleanLiteral token
\* with the upper-case lexeme exactly when the upper-cased run is AND, OR,
\* NOT, TRUE or FALSE, and an Identifier with the run as written otherwise
\* (a run that only starts with a keyword included); once tokenize has
\* returned, every run of the source has its token.
KeywordRecognition ==
    /\ \A i \in 1..Len(tokens) :
           IsWordToken(tokens[i]) =>
               /\ tokens[i].location.offset \in RunStarts(source)
               /\ EmittedAs(tokens[i], MaximalRun(source, tokens[i].location.offset))
    /\ (lexState = "done" /\ "#" \notin Range(source)) =>
           \A o \in RunStarts(source) :
               \E i \in 1..Len(tokens) :
                   IsWordToken(tokens[i]) /\ tokens[i].location.offset = o

\* C11 witness: the run not_x was emitted as an Identifier spelled not_x and
\* the run Or after it as the OR token spelled OR.
KeywordRecognitionWitness ==
    /\ lexState = "done"
    /\ Len(tokens) = 3
    /\ tokens[1] = Token("IDENT", <<"n", "o", "t", "_", "x">>, SourceLocation(1, 1, 0))
    /\ tokens[2].type = "OR"
    /\ tokens[2].lexeme = KW_OR
    /\ SubStr(source, tokens[2].location.offset, 2) = <<"O", "r">>

\* offset o of src lies in a comment: a # stands at or before it with no
\* newline from the # up to o
InComment(src, o) ==
    \E h \in 0..o : src[h + 1] = "#" /\ \A q \in h..o : src[q + 1] # "\n"

\* the character at offset o is skipped between tokens
Blank(src, comments, o) ==
    IsWhitespace(src[o + 1]) \/ (comments /\ InComment(src, o))

\* the first offset from o on that is not skipped, Len(src) when there is none
FirstSignificant(src, comments, o) ==
    CHOOSE p \in o..Len(src) :
        /\ p = Len(src) \/ ~Blank(src, comments, p)
        /\ \A q \in o..(p - 1) : Blank(src, comments, q)

\* ch starts no token
StartsNoToken(ch) == ch \notin {"(", ")"} /\ ~IsIdentStart(ch)

\* an iteration of the loop of tokenize raises exactly when the first
\* character after the blanks and comments starts no token
RaisesOnBadCharacter ==
    lexState = "running" =>
        LET p == FirstSignificant(source, enable_comments, offset) IN
        IF p < Len(source) /\ StartsNoToken(source[p + 1])
        THEN /\ lexState' = "error"
             /\ lexError'.kind = "LexicalError"
             /\ lexError'.ch = source[p + 1]
             /\ lexError'.location.offset = p
             /\ tokens' = tokens
        ELSE lexState' # "error" /\ lexError' = None

\* the LexicalError raised names the character at its location, which
\* starts no token, and carries the whole source
ErrorNamesCharacter ==
    lexError # None =>
        /\ lexError.kind = "LexicalError"
        /\ lexError.location.offset < Len(source)
        /\ lexError.ch = source[lexError.location.offset + 1]
        /\ StartsNoToken(lexError.ch)
        /\ ~IsWhitespace(lexError.ch)
        /\ LocatedAt(source, lexError.location)
        /\ lexError.source = source

\* C12: when the character after the blanks and comments is neither a
\* parenthesis nor the start of an identifier run, tokenize raises
\* LexicalError naming that character, located at its (line, column, offset)
\* and carrying the full source; tokenize then returns no token list and
\* nothing is parsed.
LexicalErrorOnBadCharacter ==
    /\ [][RaisesOnBadCharacter]_vars
    /\ []ErrorNamesCharacter
    /\ [](lexState = "error" <=> lexError # None)
    /\ [](lexState = "error" => parsed = None)
    /\ [][lexState = "error" => lexState' = "error"]_vars

\* C12 witness: LexicalError raised for a & on line 2 after a token was read.
LexicalErrorOnBadCharacterWitness ==
    /\ lexState = "error"
    /\ lexError.ch = "&"
    /\ lexError.location = SourceLocation(2, 2, 3)
    /\ Len(tokens) = 1
    /\ Len(source) = 4

\* the offsets where a token other than EOF has to start
TokenStarts(src) ==
    RunStarts(src) \cup {o \in 0..(Len(src) - 1) : src[o + 1] \in {"(", ")"}}

\* with comments enabled no token and no LexicalError lies in a comment, and
\* a returned list holds a token for every token start outside the comments
CommentsSkipped ==
    enable_comments =>
        /\ \A i \in 1..Len(tokens) :
               tokens[i].type # "EOF" =>
                   \A o \in tokens[i].location.offset ..
                             (tokens[i].location.offset + Len(tokens[i].lexeme) - 1) :
                       ~InComment(source, o)
        /\ lexError # None => ~InComment(source, lexError.location.offset)
        /\ lexState = "done" =>
               \A o \in TokenStarts(source) :
                   ~InComment(source, o) =>
                       \E i \in 1..Len(tokens) :
                           tokens[i].type # "EOF" /\ tokens[i].location.offset = o

\* with comments disabled the cursor never passes a #, and a LexicalError is
\* raised at the # the scanner has reached
HashRejected ==
    ~enable_comments =>
        \A h \in 0..(Len(source) - 1) :
            source[h + 1] = "#" =>
                /\ offset <= h
                /\ lexState # "done"
                /\ \A i \in 1..Len(tokens) : tokens[i].location.offset < h
                /\ (offset = h /\ lexState # "running") =>
                       /\ lexState = "error"
                       /\ lexError.ch = "#"
                       /\ lexError.location.offset = h
                       /\ LocatedAt(source, lexError.location)

\* the iteration that reaches a # with comments disabled raises
RaisesOnHash ==
    (lexState = "running" /\ ~enable_comments) =>
        LET p == FirstSignificant(source, FALSE, offset) IN
        (p < Len(source) /\ source[p + 1] = "#") =>
            /\ lexState' = "error"
            /\ lexError'.ch = "#"
            /\ lexError'.location.offset = p

\* C13: with comments enabled the characters from a # up to the next newline
\* give no token and no LexicalError and the tokens of the following lines
\* are produced; with comments disabled a # reached by the scanner raises
\* LexicalError at the location of the #.
CommentHandling ==
    /\ []CommentsSkipped
    /\ []HashRejected
    /\ [][RaisesOnHash]_vars

\* C13 witness: the comment #& on line 1 gave no token and no error, and the
\* identifier on line 2 was produced.
CommentHandlingWitness ==
    /\ enable_comments
    /\ lexState = "done"
    /\ Len(source) = 4
    /\ SubStr(source, 0, 3) = <<"#", "&", "\n">>
    /\ Len(tokens) = 2
    /\ tokens[1].type = "IDENT"
    /\ tokens[1].location = SourceLocation(2, 1, 3)

\* the offset where the run of identifier characters holding offset o starts
RunHead(src, o) ==
    CHOOSE h \in 0..o :
        /\ \A q \in h..o : IsIdentPart(src[q + 1])
        /\ (h = 0 \/ ~IsIdentPart(src[h]))

\* the offsets of src whose character belongs to no token, blank or comment
BadOffsets(src, comments) ==
    {o \in 0..(Len(src) - 1) :
        /\ ~Blank(src, comments, o)
        /\ src[o + 1] \notin {"(", ")"}
        /\ IsIdentPart(src[o + 1]) => ~IsIdentStart(src[RunHead(src, o) + 1])}

\* the failures the parser raises
ParseFailures == {"UnexpectedTokenError", "MissingParenthesisError", "EndOfInputError"}

\* C24: in parse(source) the parser starts only when tokenize has returned
\* the whole token list; parse raises LexicalError, at the first character
\* that belongs to no token, exactly for the sources that hold one, whatever
\* the tokens before it, and an outcome of the parser exists only for the
\* other sources; LexicalError and a parser outcome never come together.
TokenizeBeforeParse ==
    /\ [][parsed' # parsed => (lexState = "done" /\ lexState' = "done")]_vars
    /\ [](parsed # None => (lexState = "done" /\ lexError = None))
    /\ [](lexState = "error" => (parsed = None /\ BadOffsets(source, enable_comments) # {}))
    /\ [](lexState = "done" => BadOffsets(source, enable_comments) = {})
    /\ [](lexError # None =>
             /\ lexError.kind = "LexicalError"
             /\ \A o \in BadOffsets(source, enable_comments) : lexError.location.offset <= o)
    /\ [](parsed # None => parsed.kind \in {"ok"} \cup ParseFailures)

\* C24 witness: A A& ended with LexicalError for the & although the two
\* identifiers before it are a syntax error, and nothing was parsed.
TokenizeBeforeParseWitness ==
    /\ source = <<"A", " ", "A", "&">>
    /\ lexState = "error"
    /\ lexError.ch = "&"
    /\ Len(tokens) = 2
    /\ parsed = None

(***************************************************************************)
(* Properties of the parser's failures                                     *)
(***************************************************************************)
\* Reading the token types from left to right with the grammar in hand: an
\* operand position takes Identifier, BooleanLiteral, NOT or '(' ; an
\* operator position takes AND, OR, or ')' inside a group.  FirstStop is the
\* first token (1-based index at) that its position does not take, with the
\* kind of position and the number of groups open there.
RECURSIVE FirstStop(_, _, _, _)
FirstStop(toks, i, operand, depth) ==
    LET ty == toks[i].type IN
    IF operand
    THEN IF ty \in {"IDENT", "BOOL"} THEN FirstStop(toks, i + 1, FALSE, depth)
         ELSE IF ty = "NOT" THEN FirstStop(toks, i + 1, TRUE, depth)
         ELSE IF ty = "LPAREN" THEN FirstStop(toks, i + 1, TRUE, depth + 1)
         ELSE [at |-> i, operand |-> TRUE, depth |-> depth]
    ELSE IF ty \in {"AND", "OR"} THEN FirstStop(toks, i + 1, TRUE, depth)
         ELSE IF ty = "RPAREN" /\ depth > 0 THEN FirstStop(toks, i + 1, FALSE, depth - 1)
         ELSE [at |-> i, operand |-> FALSE, depth |-> depth]

Stop == FirstStop(tokens, 1, TRUE, 0)
StopToken == tokens[Stop.at]

\* a complete expression is followed by a token that is not EOF
TrailingInput == ~Stop.operand /\ Stop.depth = 0 /\ StopToken.type # "EOF"

\* C14: when the tokens left after a complete top-level expression are not
\* just EOF, parse_expression raises UnexpectedTokenError (end of expression
\* expected) located at the first leftover token, and returns no tree; it
\* returns a tree only when nothing is left over.
TrailingInputRejected ==
    parsed # None =>
        /\ TrailingInput =>
               /\ parsed.kind = "UnexpectedTokenError"
               /\ parsed.location = StopToken.location
               /\ parsed.found = Found(StopToken)
               /\ parsed.expected = "fin d'expression"
        /\ parsed.kind = "ok" => (~Stop.operand /\ Stop.depth = 0 /\ StopToken.type = "EOF")

\* C14 witness: A AND B A was parsed and the failure points at the last A.
TrailingInputRejectedWitness ==
    /\ source = Join(<<ID_A, KW_AND, ID_B, ID_A>>)
    /\ parsed # None
    /\ parsed.kind = "UnexpectedTokenError"
    /\ parsed.location = SourceLocation(1, 9, 8)

\* a group is open and the expression in it is followed by a token other
\* than ')'
GroupNotClosed == ~Stop.operand /\ Stop.depth > 0

\* C15: when the expression inside a group is followed by EOF or any token
\* other than ')', parse_expression raises MissingParenthesisError of the
\* closing kind ("fermante") located at that token, never a plain
\* UnexpectedTokenError; MissingParenthesisError is raised in no other case.
MissingClosingParenthesis ==
    parsed # None =>
        /\ GroupNotClosed =>
               /\ parsed.kind = "MissingParenthesisError"
               /\ parsed.paren = "fermante"
               /\ parsed.location = StopToken.location
        /\ parsed.kind = "MissingParenthesisError" => GroupNotClosed

\* C15 witness: ( A AND B was parsed and the failure points at the end of
\* the input.
MissingClosingParenthesisWitness ==
    /\ source = Join(<<LPAR, ID_A, KW_AND, ID_B>>)
    /\ parsed # None
    /\ parsed.kind = "MissingParenthesisError"
    /\ parsed.location.offset = Len(source)

\* C16: when an operand is required and the token there is EOF,
\* parse_expression raises EndOfInputError; when it is AND, OR or ')', it
\* raises UnexpectedTokenError listing the three alternatives (identifier,
\* boolean, opening parenthesis); EndOfInputError is raised in no other case.
OperandPositionErrors ==
    parsed # None =>
        /\ (Stop.operand /\ StopToken.type = "EOF") =>
               /\ parsed.kind = "EndOfInputError"
               /\ parsed.location = StopToken.location
        /\ (Stop.operand /\ StopToken.type # "EOF") =>
               /\ parsed.kind = "UnexpectedTokenError"
               /\ parsed.found = Found(StopToken)
               /\ parsed.expected = PrimaryAlternatives
               /\ Len(parsed.expected) = 3
        /\ parsed.kind = "EndOfInputError" => (Stop.operand /\ StopToken.type = "EOF")

\* C16 witness: A AND was parsed and EndOfInputError was raised.
OperandPositionErrorsWitness ==
    /\ source = Join(<<ID_A, KW_AND>>)
    /\ parsed # None
    /\ parsed.kind = "EndOfInputError"

\* C20: every failure of the parser carries the location of the token that
\* stopped it, which is a real position of the source, and the whole source.
FailuresCarryLocationAndSource ==
    (parsed # None /\ parsed.kind \in ParseFailures) =>
        /\ parsed.location # None
        /\ parsed.location = StopToken.location
        /\ LocatedAt(source, parsed.location)
        /\ parsed.source = source

\* C20 witness: ( A B was parsed and the failure points at B, inside the
\* source.
FailuresCarryLocationAndSourceWitness ==
    /\ source = Join(<<LPAR, ID_A, ID_B>>)
    /\ parsed # None
    /\ parsed.kind \in ParseFailures
    /\ parsed.location = SourceLocation(1, 5, 4)
    /\ parsed.source = source

\* the number of nodes on the longest path from the root of e to a leaf
RECURSIVE Depth(_)
Depth(e) ==
    CASE e.node \in {"Var", "BoolLit"} -> 1
      [] e.node = "Not" -> 1 + Depth(e.expr)
      [] OTHER -> 1 + (IF Depth(e.left) >= Depth(e.right) THEN Depth(e.left)
                       ELSE Depth(e.right))

\* the index of the EOF token, which is the number of tokens before it
EOFIndex == Len(tokens) - 1

\* a rule that succeeds from cursor c has moved the cursor forward, not past
\* the EOF token, and built a tree of at most as many nodes as tokens consumed
Consumes(r, c) ==
    r.kind = "ok" =>
        /\ c < r.current
        /\ r.current <= EOFIndex
        /\ NodeCount(r.expr) <= r.current - c

\* C21: on a token list ending in EOF every rule of the parser, started at
\* any cursor, consumes at least one token when it succeeds and never moves
\* the cursor past EOF, so the descent and the loops come to an end;
\* parse_expression ends with a tree or a failure, and a tree has depth and
\* node count at most the number of tokens before EOF.
ParserTerminationAndSize ==
    lexState = "done" =>
        /\ \A c \in 0..EOFIndex :
               /\ Consumes(parse_primary(tokens, source, c), c)
               /\ Consumes(parse_not(tokens, source, c), c)
               /\ Consumes(parse_and(tokens, source, c), c)
               /\ Consumes(parse_or(tokens, source, c), c)
               /\ Parser_advance(tokens, c) \in c..EOFIndex
        /\ parsed # None =>
               /\ parsed.kind \in {"ok"} \cup ParseFailures
               /\ parsed.kind = "ok" =>
                      /\ parsed.current = EOFIndex
                      /\ NodeCount(parsed.expr) <= EOFIndex
                      /\ Depth(parsed.expr) <= EOFIndex

\* C21 witness: NOT NOT NOT A, four tokens, was parsed to a tree of depth
\* four.
ParserTerminationAndSizeWitness ==
    /\ parsed # None
    /\ parsed.kind = "ok"
    /\ EOFIndex = 4
    /\ Depth(parsed.expr) = 4
    /\ NodeCount(parsed.expr) = 4

(***************************************************************************)
(* Properties of error formatting                                          *)
(***************************************************************************)
\* the text split at every "\n"
RECURSIVE LinesOf(_)
LinesOf(text) ==
    IF \A i \in 1..Len(text) : text[i] # "\n" THEN <<text>>
    ELSE LET k == CHOOSE i \in 1..Len(text) :
                      text[i] = "\n" /\ \A j \in 1..(i - 1) : text[j] # "\n" IN
         <<SubSeq(text, 1, k - 1)>> \o LinesOf(SubSeq(text, k + 1, Len(text)))

\* 1-based text column of the first "^" of a line, 0 when it has none
FirstCaret(l) ==
    IF \A i \in 1..Len(l) : l[i] # "^" THEN 0
    ELSE CHOOSE i \in 1..Len(l) : l[i] = "^" /\ \A j \in 1..(i - 1) : l[j] # "^"

\* the error has a location and a non-empty source whose line exists
HasExcerpt(e) ==
    /\ e.location # None
    /\ e.source # <<>>
    /\ e.location.line <= Len(splitlines(e.source))

EndsWith(l, suffix) ==
    /\ Len(l) >= Len(suffix)
    /\ SubSeq(l, Len(l) - Len(suffix) + 1, Len(l)) = suffix

\* line k of the output shows the offending source line and line k + 1 has
\* its first caret in the text column of the character at location.column
CaretUnder(out, k, e) ==
    LET error_line == splitlines(e.source)[e.location.line] IN
    /\ SubSeq(out[k], 1, 3) = <<">", ">", ">">>
    /\ EndsWith(out[k], error_line)
    /\ FirstCaret(out[k + 1]) = Len(out[k]) - Len(error_line) + e.location.column

\* C25: when the error has a location and a non-empty source whose line
\* exists, format_error prints the offending line and, on the next line, a
\* caret marker whose first "^" is in the same text column as the character
\* at location.column of the printed source line; when the location or the
\* source is missing it returns the bare message.
CaretInOffendingColumn ==
    formatted # None =>
        IF HasExcerpt(error)
        THEN LET out == LinesOf(formatted.text) IN
             \E k \in 1..(Len(out) - 1) : CaretUnder(out, k, error)
        ELSE formatted.text = error.message

(***************************************************************************)
(* Properties of the smart pretty-printer                                  *)
(***************************************************************************)
\* C26: in minimal mode the printer keeps every parenthesis that precedence
\* or left-associativity requires: for every tree e whose variable names are
\* non-keyword identifiers, right-nested And(A, And(B, C)) and
\* Or(A, Or(B, C)) included, parse(pretty_print(e, "minimal")) is
\* structurally equal to e.
PrettyPrintRoundTrip ==
    reparsed # None => (reparsed.kind = "ok" /\ reparsed.expr = expr)

(***************************************************************************)
(* Properties of the REPL                                                  *)
(***************************************************************************)
ParsesTo(p, e) == p.kind = "ok" /\ p.expr = e

\* C28: after any sequence of input lines, whenever last_expr is set it is
\* the tree obtained by parsing last_source, so that :ast, :opt and :json
\* (which show last_expr) and :tokens (which shows last_source) describe the
\* same last expression, also after an input line that failed to parse.
LastExprIsParseOfLastSource ==
    last_expr # None => ParsesTo(parse(last_source), last_expr)

\* the REPL has just handled raw and is back at the prompt
Handles(raw) == replState = "prompt" /\ input_line' = raw /\ replState' = "prompt"

\* an :env command with arguments, stripped and with its name in lower case
IsEnvWithArguments(raw) ==
    LET stripped == strip(raw) IN
    /\ Len(stripped) > 5
    /\ lower(SubSeq(stripped, 1, 5)) = <<":", "e", "n", "v", " ">>

\* C29: `:env N=v` binds exactly the name N as typed, case preserved, to the
\* boolean v stands for and leaves every other binding unchanged; after
\* `:env A=true,B=false` the expression `A AND B` evaluates to False; no
\* input other than an :env command with arguments changes the environment.
EnvBindsNamesAsTyped ==
    /\ [][Handles(LINE_env_B_ON) =>
            repl_env' = [n \in DOMAIN repl_env \cup {<<"B">>} |->
                            IF n = <<"B">> THEN PyBool(TRUE) ELSE repl_env[n]]]_vars
    /\ [][Handles(LINE_env_A_B) =>
            repl_env' = [n \in DOMAIN repl_env \cup {<<"A">>, <<"B">>} |->
                            IF n = <<"A">> THEN PyBool(TRUE)
                            ELSE IF n = <<"B">> THEN PyBool(FALSE)
                            ELSE repl_env[n]]]_vars
    /\ [][(input_line = LINE_env_A_B /\ Handles(LINE_A_AND_B)) =>
            output' = [kind |-> "result", result |-> FALSE]]_vars
    /\ [][~IsEnvWithArguments(input_line') => repl_env' = repl_env]_vars

\* the line is :quit or :exit
IsQuit(raw) ==
    lower(strip(raw)) \in {<<":", "q", "u", "i", "t">>, <<":", "e", "x", "i", "t">>}

\* C30: for every input line the loop continues to the next prompt or ends
\* because the line was :quit / :exit or input reached EOF / interrupt; no
\* input line (an unknown command, a bare ":", an expression that fails to
\* tokenize, parse or evaluate) ends the loop with an unhandled exception.
ReplLoopNeverCrashes ==
    /\ replState # "crashed"
    /\ replState = "ended" => (output.kind = "eof" \/ IsQuit(input_line))

====
